---- MODULE Spec2Model ----
(***************************************************************************)
(* PodTranscode web application: the single-job pipeline of web_app.py     *)
(* (process / process_podcast_async), its Job Status (processing_status),  *)
(* the Cache Store (cache/<episode_id>.json) and the request handlers that *)
(* share them.  Request handlers run on the worker's threads, the pipeline *)
(* runs on threads started by process(); every step below is one access to *)
(* the shared state (processing_status, the cache files, the audio files). *)
(***************************************************************************)
EXTENDS Integers, Sequences, FiniteSets, TLC

VARIABLES processing_status, cache_files, disk, jobs, reqs, served, last, env, ok,
          call

vars == <<processing_status, cache_files, disk, jobs, reqs, served, last, env, ok, call>>

-----------------------------------------------------------------------------
(* Bounds and program constants *)

\* pipeline threads alive at the same time
MaxJobs == 2

\* requests the clients send in one run of the server
MaxRequests == 2

\* request-handling threads of the one worker process
threads == 2

JobIds == 1..MaxJobs
Handlers == 1..threads

URLs == {"u1", "u2"}

None == "<None>"

\* call holds the one call of a function of services/transcriber.py or of
\* calculate_difficulty that is followed on its own; the web application makes none
NoCall == [op |-> "none"]

-----------------------------------------------------------------------------
(* Pure helpers *)

get_episode_id(url) == "md5:" \o url

EpisodeIds == {get_episode_id(u) : u \in URLs}

\* PodcastDownloader._get_filename + with_suffix('.mp3')
mp3_path(url) == "downloads/podcast_" \o url \o ".mp3"

NoTranslation == [kind |-> "none", of |-> <<>>]

ErrorMarker == [kind |-> "error", of |-> <<>>]

\* what the speech recognition yields for each episode (already assembled)
Transcript(url) ==
    IF url = "u1"
    THEN << [id |-> 0, start |-> 0, end |-> 4, text |-> <<"good", "morning">>,
             translation |-> NoTranslation],
            [id |-> 1, start |-> 4, end |-> 9, text |-> <<"welcome", "back">>,
             translation |-> NoTranslation] >>
    ELSE << [id |-> 0, start |-> 0, end |-> 6,
             text |-> <<"extraordinarily", "sophisticated">>,
             translation |-> NoTranslation] >>

\* Translator.translate_text: backend_ok is whether GoogleTranslator.translate returns
translate_text(text, backend_ok) ==
    IF text = <<>> THEN [kind |-> "empty", of |-> <<>>]
    ELSE IF backend_ok THEN [kind |-> "pt", of |-> text]
    ELSE ErrorMarker

RECURSIVE SumSeq(_)
SumSeq(s) == IF s = <<>> THEN 0 ELSE Head(s) + SumSeq(Tail(s))

WordCounts(segs) == [i \in 1..Len(segs) |-> Len(segs[i].text)]

RECURSIVE SumWordLen(_)
SumWordLen(text) == IF text = <<>> THEN 0 ELSE Len(Head(text)) + SumWordLen(Tail(text))

CharCounts(segs) == [i \in 1..Len(segs) |-> SumWordLen(segs[i].text)]

\* calculate_difficulty, lines 108-135; duration in whole seconds.  The code
\* compares the floats (total_words / duration) * 60 and chars / words with the
\* bounds; below, the same comparisons cleared of fractions (they agree with the
\* floats for every count of words and seconds up to several hundred).

\* lines 119-127 with <= for <
wpm_score_inclusive(segs, duration) ==
    LET total_words == SumSeq(WordCounts(segs))
    IN IF total_words * 60 <= 100 * duration THEN 0
       ELSE IF total_words * 60 <= 130 * duration THEN 1
       ELSE IF total_words * 60 <= 160 * duration THEN 2
       ELSE 3

\* lines 108-112, 119-127
wpm_score(segs, duration) ==
    LET total_words == SumSeq(WordCounts(segs))
    IN IF total_words * 60 < 100 * duration THEN 0
       ELSE IF total_words * 60 < 130 * duration THEN 1
       ELSE IF total_words * 60 < 160 * duration THEN 2
       ELSE 3

\* lines 129-135 with <= for <
word_length_score_inclusive(segs) ==
    LET total_words == SumSeq(WordCounts(segs))
        chars == SumSeq(CharCounts(segs))
    IN IF total_words = 0 THEN 0
       ELSE IF 2 * chars <= 9 * total_words THEN 0
       ELSE IF 2 * chars <= 11 * total_words THEN 1
       ELSE 2

\* lines 114-116, 129-135
word_length_score(segs) ==
    LET total_words == SumSeq(WordCounts(segs))
        chars == SumSeq(CharCounts(segs))
    IN IF total_words = 0 THEN 0
       ELSE IF 2 * chars < 9 * total_words THEN 0
       ELSE IF 2 * chars < 11 * total_words THEN 1
       ELSE 2

\* lines 137-143
difficulty_of(score) ==
    IF score <= 1 THEN "easy" ELSE IF score <= 3 THEN "medium" ELSE "hard"

calculate_difficulty(segs, duration) ==
    IF segs = <<>> \/ duration <= 0 THEN "medium"
    ELSE difficulty_of(wpm_score(segs, duration) + word_length_score(segs))

\* whether the extractor finds metadata for the episode (get_info raises otherwise)
HasMetadata(url) == url = "u1"

\* downloader.get_info: best-effort metadata
get_info(url) == [title |-> "title of " \o url, thumbnail |-> "thumb of " \o url,
                  duration |-> IF url = "u1" THEN 9 ELSE 6]

\* a sink that adds what is reported to the progress it holds
update_status_adding(ps, progress, message) ==
    [ps EXCEPT !.progress = @ + progress, !.message = message]

update_status(ps, progress, message) ==
    [ps EXCEPT !.progress = progress, !.message = message]

\* Segment.format_time
format_time(seconds) ==
    LET mins == seconds \div 60
        secs == seconds % 60
        two(n) == IF n < 10 THEN "0" \o ToString(n) ELSE ToString(n)
    IN two(mins) \o ":" \o two(secs)

\* lines 213-225: the dict written to JSON for one Segment
segment_dict(s) ==
    [id |-> s.id, start |-> s.start, end |-> s.end,
     start_ms |-> s.start * 1000, end_ms |-> s.end * 1000,
     text |-> s.text, translation |-> s.translation,
     time_range |-> format_time(s.start) \o " - " \o format_time(s.end)]

segments_data(segs) == [k \in 1..Len(segs) |-> segment_dict(segs[k])]

-----
(* Cache files: cache/<episode_id>.json is missing, holds a complete record, or
   has been opened for writing (truncated) and not yet completely written *)

Missing == [kind |-> "missing"]

Truncated == [kind |-> "truncated"]

IsRecord(f) == f.kind = "record"

\* load_from_cache: None when the file is missing, json.load raises on a truncated file
load_from_cache(eid) == cache_files[eid]

\* save_to_cache, first half: open(cache_path, 'w') truncates the file
save_to_cache_open(eid) == [cache_files EXCEPT ![eid] = Truncated]

\* save_to_cache, second half: json.dump and close put the whole record in place
save_to_cache_dump(eid, data) == [cache_files EXCEPT ![eid] = data]

EpisodeRecord(segs, audio_path, url, title, thumbnail, duration, difficulty, language) ==
    [kind |-> "record", segments |-> segs, audio_path |-> audio_path, url |-> url,
     title |-> title, thumbnail |-> thumbnail, duration |-> duration,
     difficulty |-> difficulty, language |-> language]

-----------------------------------------------------------------------------
(* Threads *)

FreeJob == [pc |-> "free", url |-> None, mode |-> None, cached |-> Missing,
            audio_path |-> None, segments |-> <<>>, i |-> 0, title |-> "",
            thumbnail |-> "", duration |-> 0, exc |-> None, log |-> <<>>]

\* found_error is history: the error an ended job had left in the Job Status when
\* a start call arrived
IdleReq == [pc |-> "idle", url |-> None, cached |-> Missing, found_error |-> None]

\* the response a handler returns: the endpoint and the answer
Response(op, kind) == [op |-> op, kind |-> kind]

\* the record an earlier run of the server has left in the cache directory
StoredRecord(url) ==
    LET segs == [k \in 1..Len(Transcript(url)) |->
                   segment_dict([Transcript(url)[k] EXCEPT
                       !.translation = translate_text(Transcript(url)[k].text, TRUE)])]
    IN EpisodeRecord(segs, mp3_path(url), url, get_info(url).title,
                     get_info(url).thumbnail, get_info(url).duration,
                     calculate_difficulty(segs, get_info(url).duration), "en")

\* what earlier runs of the server have left on disk: any of the four combinations
\* of record and audio file for the first episode, nothing or both for the others
InitialFiles(files, audio) ==
    \A u \in URLs \ {"u1"} :
       IsRecord(files[get_episode_id(u)]) <=> mp3_path(u) \in audio

\* the clients of one run: how many requests they send and which episodes they ask for
Clients(quota, urls) == [quota |-> quota, urls |-> urls]

Init ==
    /\ processing_status = [progress |-> 0, message |-> "Ready to start",
                            is_processing |-> FALSE, segments |-> <<>>,
                            audio_path |-> None, error |-> None, episode_id |-> None]
    /\ \E stored \in SUBSET URLs :
          cache_files = [e \in EpisodeIds |->
             IF \E u \in stored : e = get_episode_id(u)
             THEN StoredRecord(CHOOSE u \in stored : e = get_episode_id(u))
             ELSE Missing]
    /\ disk \in SUBSET {mp3_path(u) : u \in URLs}
    /\ InitialFiles(cache_files, disk)
    /\ jobs = [j \in JobIds |-> FreeJob]
    /\ reqs = [h \in Handlers |-> IdleReq]
    /\ served = 0
    /\ last = Response(None, None)
    /\ env = Clients(MaxRequests, URLs)
    /\ ok = {}
    /\ call = NoCall

\* threading.Thread(target=process_podcast_async, args=(url, episode_id, ...)).start()
Thread_start(url) ==
    /\ \E j \in JobIds :
          /\ jobs[j].pc = "free"
          /\ \A k \in JobIds : k < j => jobs[k].pc # "free"
          /\ jobs' = [jobs EXCEPT ![j] = [FreeJob EXCEPT !.pc = "L152", !.url = url]]

\* the raise of an exception inside the try block of process_podcast_async
Raise(job, description) == [job EXCEPT !.pc = "L247", !.exc = description]

-----------------------------------------------------------------------------
(* process_podcast_async, one action per access to the shared state.  A job's
   pc names the source line it executes next. *)

Eid(j) == get_episode_id(jobs[j].url)

Logged(job, phase) == [job EXCEPT !.log = Append(@, phase)]

Job_L152(j) ==
    /\ jobs[j].pc = "L152"
    /\ processing_status' = [processing_status EXCEPT !.is_processing = TRUE]
    /\ jobs' = [jobs EXCEPT ![j].pc = "L153"]
    /\ UNCHANGED <<cache_files, disk, reqs, served, last, env, ok, call>>

Job_L153(j) ==
    /\ jobs[j].pc = "L153"
    /\ processing_status' = [processing_status EXCEPT !.error = None,
                                !.segments = <<>>, !.episode_id = Eid(j)]
    /\ jobs' = [jobs EXCEPT ![j].pc = "L162"]
    /\ UNCHANGED <<cache_files, disk, reqs, served, last, env, ok, call>>

Job_L162(j) ==
    /\ jobs[j].pc = "L162"
    /\ LET cached == load_from_cache(Eid(j))
       IN jobs' = [jobs EXCEPT ![j] =
              IF cached = Truncated THEN Raise(@, "cache read failed")
              ELSE IF IsRecord(cached)
                   THEN [@ EXCEPT !.pc = "L164", !.cached = cached, !.mode = "cached"]
                   ELSE [@ EXCEPT !.pc = "L184", !.mode = "full"]]
    /\ UNCHANGED <<processing_status, cache_files, disk, reqs, served, last, env, ok, call>>

Job_L164(j) ==
    /\ jobs[j].pc = "L164"
    /\ processing_status' =
          [update_status(processing_status, 100, "Loaded from cache!")
             EXCEPT !.segments = jobs[j].cached.segments,
                    !.audio_path = jobs[j].cached.audio_path]
    /\ jobs' = [jobs EXCEPT ![j].pc = "L169"]
    /\ UNCHANGED <<cache_files, disk, reqs, served, last, env, ok, call>>

Job_L169(j) ==
    /\ jobs[j].pc = "L169"
    /\ jobs' = [jobs EXCEPT ![j].pc =
          IF processing_status.audio_path = None
             \/ processing_status.audio_path \notin disk
          THEN "L170" ELSE "L176"]
    /\ UNCHANGED <<processing_status, cache_files, disk, reqs, served, last, env, ok, call>>

Job_L170(j) ==
    /\ jobs[j].pc = "L170"
    /\ processing_status' = update_status(processing_status, 50, "Downloading audio again...")
    /\ jobs' = [jobs EXCEPT ![j].pc = "D_check"]
    /\ UNCHANGED <<cache_files, disk, reqs, served, last, env, ok, call>>

\* the statement that receives download()'s result: line 171, or lines 194-195
download_returned(job, ps, path) ==
    IF job.mode = "cached"
    THEN <<Logged([job EXCEPT !.pc = "L173"], "download"),
           [ps EXCEPT !.audio_path = path]>>
    ELSE <<Logged([job EXCEPT !.pc = "L198", !.audio_path = path], "download"),
           [ps EXCEPT !.audio_path = path]>>

\* a download that fetches the audio whether or not the file is there
download_check_refetching(j) ==
    /\ jobs[j].pc = "D_check"
    /\ jobs' = [jobs EXCEPT ![j].pc = "D_run"]
    /\ processing_status' = update_status(processing_status, 0, "Starting download...")
    /\ UNCHANGED <<cache_files, disk, reqs, served, last, env, ok, call>>

\* PodcastDownloader.download up to the start of the fetch
download_check(j) ==
    /\ jobs[j].pc = "D_check"
    /\ IF mp3_path(jobs[j].url) \in disk
       THEN LET r == download_returned(jobs[j],
                        update_status(processing_status, 100,
                                      "Arquivo ja existe, usando cache"),
                        mp3_path(jobs[j].url))
            IN /\ jobs' = [jobs EXCEPT ![j] = r[1]]
               /\ processing_status' = r[2]
       ELSE /\ jobs' = [jobs EXCEPT ![j].pc = "D_run"]
            /\ processing_status' =
                  update_status(processing_status, 0, "Starting download...")
    /\ UNCHANGED <<cache_files, disk, reqs, served, last, env, ok, call>>

\* ydl.download([url]) ends: the mp3 file is there, or RuntimeError is raised
download_run(j) ==
    /\ jobs[j].pc = "D_run"
    /\ \/ LET r == download_returned(jobs[j],
                      update_status(processing_status, 100, "Download completed!"),
                      mp3_path(jobs[j].url))
          IN /\ jobs' = [jobs EXCEPT ![j] = r[1]]
             /\ processing_status' = r[2]
             /\ disk' = disk \cup {mp3_path(jobs[j].url)}
       \/ /\ jobs' = [jobs EXCEPT ![j] =
                 Logged(Raise(@, "Error downloading podcast"), "download")]
          /\ UNCHANGED <<processing_status, disk>>
    /\ UNCHANGED <<cache_files, reqs, served, last, env, ok, call>>

Job_L173(j) ==
    /\ jobs[j].pc = "L173"
    /\ \/ /\ jobs' = [jobs EXCEPT ![j] =
                 [@ EXCEPT !.pc = "L174",
                           !.cached.audio_path = processing_status.audio_path]]
          /\ cache_files' = save_to_cache_open(Eid(j))
       \/ /\ jobs' = [jobs EXCEPT ![j] = Raise(@, "cache write failed")]
          /\ UNCHANGED cache_files
    /\ UNCHANGED <<processing_status, disk, reqs, served, last, env, ok, call>>

Job_L174(j) ==
    /\ jobs[j].pc = "L174"
    /\ \/ /\ jobs' = [jobs EXCEPT ![j] = Logged([@ EXCEPT !.pc = "L176"], "cache_write")]
          /\ cache_files' = save_to_cache_dump(Eid(j), jobs[j].cached)
       \/ /\ jobs' = [jobs EXCEPT ![j] = Raise(@, "cache write failed")]
          /\ UNCHANGED cache_files
    /\ UNCHANGED <<processing_status, disk, reqs, served, last, env, ok, call>>

Job_L176(j) ==
    /\ jobs[j].pc = "L176"
    /\ processing_status' = update_status(processing_status, 100,
          "Ready! " \o ToString(Len(jobs[j].cached.segments)) \o " sentences (cache)")
    /\ jobs' = [jobs EXCEPT ![j].pc = "L251"]
    /\ UNCHANGED <<cache_files, disk, reqs, served, last, env, ok, call>>

\* a job that lets the exception of get_info reach the handler of line 246
Job_L184_aborting(j) ==
    /\ jobs[j].pc = "L184"
    /\ \E info_ok \in {HasMetadata(jobs[j].url)} :
          /\ jobs' = [jobs EXCEPT ![j] =
                IF info_ok
                THEN [@ EXCEPT !.pc = "D_check", !.title = get_info(jobs[j].url).title,
                               !.thumbnail = get_info(jobs[j].url).thumbnail,
                               !.duration = get_info(jobs[j].url).duration]
                ELSE Raise(@, "no metadata")]
          /\ processing_status' =
                IF info_ok
                THEN update_status(processing_status, 5, "Downloading podcast...")
                ELSE processing_status
    /\ UNCHANGED <<cache_files, disk, reqs, served, last, env, ok, call>>

\* lines 179-193: metadata is best effort, then the Download phase is announced
Job_L184(j) ==
    /\ jobs[j].pc = "L184"
    /\ \E info_ok \in {HasMetadata(jobs[j].url)} :
          jobs' = [jobs EXCEPT ![j] =
              IF info_ok
              THEN [@ EXCEPT !.pc = "D_check", !.title = get_info(jobs[j].url).title,
                             !.thumbnail = get_info(jobs[j].url).thumbnail,
                             !.duration = get_info(jobs[j].url).duration]
              ELSE [@ EXCEPT !.pc = "D_check"]]
    /\ processing_status' = update_status(processing_status, 5, "Downloading podcast...")
    /\ UNCHANGED <<cache_files, disk, reqs, served, last, env, ok, call>>

Job_L198(j) ==
    /\ jobs[j].pc = "L198"
    /\ processing_status' = update_status(processing_status, 20,
                               "Transcribing (may take a few minutes)...")
    /\ jobs' = [jobs EXCEPT ![j].pc = "T_begin"]
    /\ UNCHANGED <<cache_files, disk, reqs, served, last, env, ok, call>>

\* Transcriber.transcribe, lines 52-53
transcribe_begin(j) ==
    /\ jobs[j].pc = "T_begin"
    /\ processing_status' = update_status(processing_status, 10,
                               "Transcribing audio with OpenAI Whisper API...")
    /\ jobs' = [jobs EXCEPT ![j] = Logged([@ EXCEPT !.pc = "T_api"], "transcribe")]
    /\ UNCHANGED <<cache_files, disk, reqs, served, last, env, ok, call>>

\* Transcriber.transcribe, lines 55-136: the file is read, the service answers or fails
transcribe_api(j) ==
    /\ jobs[j].pc = "T_api"
    /\ \/ /\ jobs[j].audio_path \in disk
          /\ jobs' = [jobs EXCEPT ![j] =
                [@ EXCEPT !.pc = "L206", !.segments = Transcript(jobs[j].url)]]
          /\ processing_status' = update_status(processing_status, 100,
                "Transcription completed! " \o ToString(Len(Transcript(jobs[j].url)))
                   \o " segments found.")
       \/ /\ jobs' = [jobs EXCEPT ![j] = Raise(@, "transcription failed")]
          /\ UNCHANGED processing_status
    /\ UNCHANGED <<cache_files, disk, reqs, served, last, env, ok, call>>

\* a job that goes from the transcript straight to the cache write
Job_L206_skipping(j) ==
    /\ jobs[j].pc = "L206"
    /\ processing_status' = update_status(processing_status, 80, "Translating...")
    /\ jobs' = [jobs EXCEPT ![j].pc = "L227"]
    /\ UNCHANGED <<cache_files, disk, reqs, served, last, env, ok, call>>

Job_L206(j) ==
    /\ jobs[j].pc = "L206"
    /\ processing_status' = update_status(processing_status, 80, "Translating...")
    /\ jobs' = [jobs EXCEPT ![j].pc = "TL_start"]
    /\ UNCHANGED <<cache_files, disk, reqs, served, last, env, ok, call>>

\* Translator.translate_segments, lines 84-87
translate_segments_start(j) ==
    /\ jobs[j].pc = "TL_start"
    /\ processing_status' = update_status(processing_status, 0, "Starting translation...")
    /\ jobs' = [jobs EXCEPT ![j] = Logged(
          [@ EXCEPT !.i = 1, !.pc = IF Len(jobs[j].segments) = 0 THEN "TL_end" ELSE "TL_seg"],
          "translate")]
    /\ UNCHANGED <<cache_files, disk, reqs, served, last, env, ok, call>>

\* Translator.translate_segments, lines 89-94: one iteration of the loop
translate_segments_step(j) ==
    /\ jobs[j].pc = "TL_seg"
    /\ LET i == jobs[j].i
           total == Len(jobs[j].segments)
       IN /\ \E backend_ok \in BOOLEAN :
                jobs' = [jobs EXCEPT ![j] =
                   [@ EXCEPT !.segments[i].translation =
                                 translate_text(jobs[j].segments[i].text, backend_ok),
                             !.i = i + 1,
                             !.pc = IF i = total THEN "TL_end" ELSE "TL_seg"]]
          /\ processing_status' = update_status(processing_status, (i * 100) \div total,
                "Translating: " \o ToString(i) \o "/" \o ToString(total))
    /\ UNCHANGED <<cache_files, disk, reqs, served, last, env, ok, call>>

\* Translator.translate_segments, lines 96-99
translate_segments_end(j) ==
    /\ jobs[j].pc = "TL_end"
    /\ processing_status' = update_status(processing_status, 100, "Translation completed!")
    /\ jobs' = [jobs EXCEPT ![j].pc = "L227"]
    /\ UNCHANGED <<cache_files, disk, reqs, served, last, env, ok, call>>

Job_L227(j) ==
    /\ jobs[j].pc = "L227"
    /\ processing_status' = [processing_status EXCEPT
                                !.segments = segments_data(jobs[j].segments)]
    /\ jobs' = [jobs EXCEPT ![j].pc = "L233"]
    /\ UNCHANGED <<cache_files, disk, reqs, served, last, env, ok, call>>

\* lines 230-242: the record the full chain persists
NewRecord(job) ==
    EpisodeRecord(segments_data(job.segments), job.audio_path, job.url, job.title,
                  job.thumbnail, job.duration,
                  calculate_difficulty(segments_data(job.segments), job.duration), "en")

Job_L233(j) ==
    /\ jobs[j].pc = "L233"
    /\ \/ /\ jobs' = [jobs EXCEPT ![j].pc = "L234"]
          /\ cache_files' = save_to_cache_open(Eid(j))
       \/ /\ jobs' = [jobs EXCEPT ![j] = Raise(@, "cache write failed")]
          /\ UNCHANGED cache_files
    /\ UNCHANGED <<processing_status, disk, reqs, served, last, env, ok, call>>

Job_L234(j) ==
    /\ jobs[j].pc = "L234"
    /\ \/ /\ jobs' = [jobs EXCEPT ![j] = Logged([@ EXCEPT !.pc = "L244"], "cache_write")]
          /\ cache_files' = save_to_cache_dump(Eid(j), NewRecord(jobs[j]))
       \/ /\ jobs' = [jobs EXCEPT ![j] = Raise(@, "cache write failed")]
          /\ UNCHANGED cache_files
    /\ UNCHANGED <<processing_status, disk, reqs, served, last, env, ok, call>>

Job_L244(j) ==
    /\ jobs[j].pc = "L244"
    /\ processing_status' = update_status(processing_status, 100,
          "Ready! " \o ToString(Len(jobs[j].segments)) \o " sentences found.")
    /\ jobs' = [jobs EXCEPT ![j].pc = "L251"]
    /\ UNCHANGED <<cache_files, disk, reqs, served, last, env, ok, call>>

Job_L247(j) ==
    /\ jobs[j].pc = "L247"
    /\ processing_status' = [processing_status EXCEPT !.error = jobs[j].exc]
    /\ jobs' = [jobs EXCEPT ![j].pc = "L248"]
    /\ UNCHANGED <<cache_files, disk, reqs, served, last, env, ok, call>>

Job_L248(j) ==
    /\ jobs[j].pc = "L248"
    /\ processing_status' = update_status(processing_status, 0,
                                           "Error: " \o jobs[j].exc)
    /\ jobs' = [jobs EXCEPT ![j].pc = "L251"]
    /\ UNCHANGED <<cache_files, disk, reqs, served, last, env, ok, call>>

\* finally: the last statement of the thread
Job_L251(j) ==
    /\ jobs[j].pc = "L251"
    /\ processing_status' = [processing_status EXCEPT !.is_processing = FALSE]
    /\ jobs' = [jobs EXCEPT ![j] = FreeJob]
    /\ ok' = IF jobs[j].exc = None THEN ok \cup {jobs[j].url} ELSE ok
    /\ UNCHANGED <<cache_files, disk, reqs, served, last, env, call>>

process_podcast_async(j) ==
    \/ Job_L152(j) \/ Job_L153(j) \/ Job_L162(j) \/ Job_L164(j) \/ Job_L169(j)
    \/ Job_L170(j) \/ download_check(j) \/ download_run(j) \/ Job_L173(j)
    \/ Job_L174(j) \/ Job_L176(j) \/ Job_L184(j) \/ Job_L198(j)
    \/ transcribe_begin(j) \/ transcribe_api(j) \/ Job_L206(j)
    \/ translate_segments_start(j) \/ translate_segments_step(j)
    \/ translate_segments_end(j) \/ Job_L227(j) \/ Job_L233(j) \/ Job_L234(j)
    \/ Job_L244(j) \/ Job_L247(j) \/ Job_L248(j) \/ Job_L251(j)

-----------------------------------------------------------------------------
(* Request handlers.  An idle handler thread takes the next request; returning
   the response makes it idle again. *)

\* the worker hands the next request to an idle thread
Accept(h) ==
    /\ reqs[h].pc = "idle"
    /\ served < env.quota
    /\ served' = served + 1
    /\ UNCHANGED <<env, ok, call>>

Return(h, op, kind) ==
    /\ last' = Response(op, kind)
    /\ reqs' = [reqs EXCEPT ![h] = IdleReq]

ReturnAtOnce(h, op, kind) ==
    /\ last' = Response(op, kind)
    /\ UNCHANGED reqs

\* a start that, when it is rejected, also rewrites the message of the Job Status
process_L388_clearing(h) ==
    /\ Accept(h)
    /\ \E url \in env.urls \cup {""} :
          IF processing_status.is_processing
          THEN /\ ReturnAtOnce(h, "process", "400 processing")
               /\ processing_status' = [processing_status EXCEPT !.message = "Busy"]
          ELSE IF url = ""
          THEN /\ ReturnAtOnce(h, "process", "400 no url")
               /\ UNCHANGED processing_status
          ELSE /\ reqs' = [reqs EXCEPT ![h] = [IdleReq EXCEPT !.pc = "P402", !.url = url,
                     !.found_error = IF \A j \in JobIds : jobs[j].pc = "free"
                                     THEN processing_status.error ELSE None]]
               /\ UNCHANGED <<last, processing_status>>
    /\ UNCHANGED <<cache_files, disk, jobs>>

\* POST /api/process, lines 388-397
process_L388(h) ==
    /\ Accept(h)
    /\ \E url \in env.urls \cup {""} :
          IF processing_status.is_processing
          THEN ReturnAtOnce(h, "process", "400 processing")
          ELSE IF url = ""
          THEN ReturnAtOnce(h, "process", "400 no url")
          ELSE /\ reqs' = [reqs EXCEPT ![h] = [IdleReq EXCEPT !.pc = "P402", !.url = url,
                     !.found_error = IF \A j \in JobIds : jobs[j].pc = "free"
                                     THEN processing_status.error ELSE None]]
               /\ UNCHANGED last
    /\ UNCHANGED <<processing_status, cache_files, disk, jobs>>

\* lines 399-403 and, without a record, 424-428
process_L402(h) ==
    /\ reqs[h].pc = "P402"
    /\ LET cached == load_from_cache(get_episode_id(reqs[h].url))
       IN IF cached = Truncated
          THEN /\ Return(h, "process", "500")
               /\ UNCHANGED jobs
          ELSE IF IsRecord(cached)
          THEN /\ reqs' = [reqs EXCEPT ![h].pc = "P406", ![h].cached = cached]
               /\ UNCHANGED <<jobs, last>>
          ELSE /\ Thread_start(reqs[h].url)
               /\ Return(h, "process", "started")
    /\ UNCHANGED <<processing_status, cache_files, disk, served, env, ok, call>>

\* lines 405-406 and, without the audio file, 417-422
process_L406(h) ==
    /\ reqs[h].pc = "P406"
    /\ LET audio_path == reqs[h].cached.audio_path
       IN IF audio_path # None /\ audio_path \in disk
          THEN /\ reqs' = [reqs EXCEPT ![h].pc = "P408"]
               /\ UNCHANGED <<jobs, last>>
          ELSE /\ Thread_start(reqs[h].url)
               /\ Return(h, "process", "started redownloading")
    /\ UNCHANGED <<processing_status, cache_files, disk, served, env, ok, call>>

\* lines 408-416
process_L408(h) ==
    /\ reqs[h].pc = "P408"
    /\ processing_status' = [processing_status EXCEPT
                                !.segments = reqs[h].cached.segments,
                                !.audio_path = reqs[h].cached.audio_path,
                                !.episode_id = get_episode_id(reqs[h].url)]
    /\ Return(h, "process", "cached")
    /\ UNCHANGED <<cache_files, disk, jobs, served, env, ok, call>>

process(h) == process_L388(h) \/ process_L402(h) \/ process_L406(h) \/ process_L408(h)

\* a status route that forgets the error once it has reported it
status_clearing(h) ==
    /\ Accept(h)
    /\ ReturnAtOnce(h, "status", "200")
    /\ processing_status' = [processing_status EXCEPT !.error = None]
    /\ UNCHANGED <<cache_files, disk, jobs>>

\* GET /api/status
status(h) ==
    /\ Accept(h)
    /\ ReturnAtOnce(h, "status", "200")
    /\ UNCHANGED <<processing_status, cache_files, disk, jobs>>

\* GET /api/segments
segments(h) ==
    /\ Accept(h)
    /\ ReturnAtOnce(h, "segments", "200")
    /\ UNCHANGED <<processing_status, cache_files, disk, jobs>>

\* GET /api/cache/<episode_id>, line 456 (the episode is named by its url)
get_cached_L456(h) ==
    /\ Accept(h)
    /\ \E url \in env.urls :
          LET cached == load_from_cache(get_episode_id(url))
          IN IF cached = Truncated THEN ReturnAtOnce(h, "get_cached", "500")
             ELSE IF IsRecord(cached)
             THEN /\ reqs' = [reqs EXCEPT ![h] = [IdleReq EXCEPT !.pc = "G458",
                                 !.url = url, !.cached = cached]]
                  /\ UNCHANGED last
             ELSE ReturnAtOnce(h, "get_cached", "404")
    /\ UNCHANGED <<processing_status, cache_files, disk, jobs>>

\* lines 458-463
get_cached_L458(h) ==
    /\ reqs[h].pc = "G458"
    /\ processing_status' = [processing_status EXCEPT
                                !.segments = reqs[h].cached.segments,
                                !.audio_path = reqs[h].cached.audio_path]
    /\ Return(h, "get_cached", "200")
    /\ UNCHANGED <<cache_files, disk, jobs, served, env, ok, call>>

get_cached(h) == get_cached_L456(h) \/ get_cached_L458(h)

\* DELETE /api/cache/<episode_id>, lines 470-471
delete_cached_L471(h) ==
    /\ Accept(h)
    /\ \E url \in env.urls :
          IF cache_files[get_episode_id(url)] = Missing
          THEN ReturnAtOnce(h, "delete_cached", "404")
          ELSE /\ reqs' = [reqs EXCEPT ![h] = [IdleReq EXCEPT !.pc = "X473", !.url = url]]
               /\ UNCHANGED last
    /\ UNCHANGED <<processing_status, cache_files, disk, jobs>>

\* lines 473-475
delete_cached_L473(h) ==
    /\ reqs[h].pc = "X473"
    /\ LET cached == load_from_cache(get_episode_id(reqs[h].url))
       IN IF cached = Truncated THEN Return(h, "delete_cached", "500")
          ELSE /\ reqs' = IF IsRecord(cached) /\ cached.audio_path # None
                          THEN [reqs EXCEPT ![h].pc = "X476", ![h].cached = cached]
                          ELSE [reqs EXCEPT ![h].pc = "X482"]
               /\ UNCHANGED last
    /\ UNCHANGED <<processing_status, cache_files, disk, jobs, served, env, ok, call>>

\* lines 476-480: os.remove of the audio file, a failure is swallowed
delete_cached_L476(h) ==
    /\ reqs[h].pc = "X476"
    /\ \/ disk' = disk \ {reqs[h].cached.audio_path}
       \/ /\ reqs[h].cached.audio_path \in disk
          /\ UNCHANGED disk
    /\ reqs' = [reqs EXCEPT ![h].pc = "X482", ![h].cached = Missing]
    /\ ok' = ok \ {reqs[h].url}
    /\ UNCHANGED <<processing_status, cache_files, jobs, served, last, env, call>>

\* lines 482-483: os.remove of the cache file raises when it is gone
delete_cached_L482(h) ==
    /\ reqs[h].pc = "X482"
    /\ IF cache_files[get_episode_id(reqs[h].url)] = Missing
       THEN /\ Return(h, "delete_cached", "500")
            /\ UNCHANGED cache_files
       ELSE /\ Return(h, "delete_cached", "200")
            /\ cache_files' = [cache_files EXCEPT ![get_episode_id(reqs[h].url)] = Missing]
    /\ ok' = ok \ {reqs[h].url}
    /\ UNCHANGED <<processing_status, disk, jobs, served, env, call>>

delete_cached(h) ==
    \/ delete_cached_L471(h) \/ delete_cached_L473(h)
    \/ delete_cached_L476(h) \/ delete_cached_L482(h)

Difficulties == {"easy", "medium", "hard"}

\* PUT /api/cache/<episode_id>/difficulty, lines 490-499
update_difficulty_L490(h) ==
    /\ Accept(h)
    /\ \E url \in env.urls, difficulty \in {"hard", "impossible"} :
          LET cached == load_from_cache(get_episode_id(url))
          IN IF cached = Truncated
             THEN ReturnAtOnce(h, "update_difficulty", "500")
             ELSE IF ~IsRecord(cached)
             THEN ReturnAtOnce(h, "update_difficulty", "404")
             ELSE IF difficulty \notin Difficulties
             THEN ReturnAtOnce(h, "update_difficulty", "400")
             ELSE /\ reqs' = [reqs EXCEPT ![h] = [IdleReq EXCEPT !.pc = "U500",
                                 !.url = url,
                                 !.cached = [cached EXCEPT !.difficulty = difficulty]]]
                  /\ UNCHANGED last
    /\ UNCHANGED <<processing_status, cache_files, disk, jobs>>

\* line 500, save_to_cache opens the file
update_difficulty_L500(h) ==
    /\ reqs[h].pc = "U500"
    /\ \/ /\ cache_files' = save_to_cache_open(get_episode_id(reqs[h].url))
          /\ reqs' = [reqs EXCEPT ![h].pc = "U501"]
          /\ UNCHANGED last
       \/ /\ Return(h, "update_difficulty", "500")
          /\ UNCHANGED cache_files
    /\ UNCHANGED <<processing_status, disk, jobs, served, env, ok, call>>

\* lines 500-501, save_to_cache writes the record
update_difficulty_L501(h) ==
    /\ reqs[h].pc = "U501"
    /\ \/ /\ cache_files' = save_to_cache_dump(get_episode_id(reqs[h].url), reqs[h].cached)
          /\ Return(h, "update_difficulty", "200")
       \/ /\ Return(h, "update_difficulty", "500")
          /\ UNCHANGED cache_files
    /\ UNCHANGED <<processing_status, disk, jobs, served, env, ok, call>>

update_difficulty(h) ==
    update_difficulty_L490(h) \/ update_difficulty_L500(h) \/ update_difficulty_L501(h)

\* GET /api/audio
audio(h) ==
    /\ Accept(h)
    /\ ReturnAtOnce(h, "audio",
          IF processing_status.audio_path # None
             /\ processing_status.audio_path \in disk
          THEN "200" ELSE "404")
    /\ UNCHANGED <<processing_status, cache_files, disk, jobs>>

\* an audio file disappears from the download directory (the case lines 169 and
\* 404-406 test for)
AudioFileLost ==
    /\ \E path \in disk :
          /\ disk' = disk \ {path}
          /\ ok' = {u \in ok : mp3_path(u) # path}
    /\ UNCHANGED <<processing_status, cache_files, jobs, reqs, served, last, env, call>>

Next ==
    \/ \E j \in JobIds : process_podcast_async(j)
    \/ \E h \in Handlers :
          \/ process(h) \/ status(h) \/ segments(h) \/ get_cached(h)
          \/ delete_cached(h) \/ update_difficulty(h) \/ audio(h)
    \/ AudioFileLost

Spec == Init /\ [][Next]_vars

\* one more request, all of them for the first episode, nothing on disk at the start
InitOneEpisode ==
    /\ processing_status = [progress |-> 0, message |-> "Ready to start",
                            is_processing |-> FALSE, segments |-> <<>>,
                            audio_path |-> None, error |-> None, episode_id |-> None]
    /\ cache_files = [e \in EpisodeIds |-> Missing]
    /\ disk = {}
    /\ jobs = [j \in JobIds |-> FreeJob]
    /\ reqs = [h \in Handlers |-> IdleReq]
    /\ served = 0
    /\ last = Response(None, None)
    /\ env = Clients(MaxRequests + 1, {"u1"})
    /\ ok = {}
    /\ call = NoCall

SpecOneEpisode == InitOneEpisode /\ [][Next]_vars

\* one more request, all of them for the first episode, whose record and audio
\* file an earlier run has left
InitStoredEpisode ==
    /\ processing_status = [progress |-> 0, message |-> "Ready to start",
                            is_processing |-> FALSE, segments |-> <<>>,
                            audio_path |-> None, error |-> None, episode_id |-> None]
    /\ cache_files = [e \in EpisodeIds |->
          IF e = get_episode_id("u1") THEN StoredRecord("u1") ELSE Missing]
    /\ disk = {mp3_path("u1")}
    /\ jobs = [j \in JobIds |-> FreeJob]
    /\ reqs = [h \in Handlers |-> IdleReq]
    /\ served = 0
    /\ last = Response(None, None)
    /\ env = Clients(MaxRequests + 1, {"u1"})
    /\ ok = {}
    /\ call = NoCall

SpecStoredEpisode == InitStoredEpisode /\ [][Next]_vars

-----------------------------------------------------------------------------
(* The claims. *)

\* a job whose thread has begun to execute process_podcast_async
Executing(j) == jobs[j].pc \notin {"free", "L152"}

\* C1: at most one job executes at any time; of two start calls made in
\* immediate succession the second is rejected, so never two jobs execute
C1_SingleFlight == Cardinality({j \in JobIds : Executing(j)}) <= 1

\* the step in which the handler of a start call rejects it at line 388
RejectedStart ==
    /\ served' = served + 1
    /\ reqs' = reqs
    /\ last' = Response("process", "400 processing")

\* C2: a start call rejected because a job is already active changes no field
\* of the Job Status, starts no job thread, and modifies neither the cache
\* directory nor the audio files
C2_RejectionChangesNothing ==
    [][RejectedStart => UNCHANGED <<processing_status, jobs, cache_files, disk>>]_vars

\* a start call has been rejected while a job is between its first and last line
C2_Witness ==
    /\ last = Response("process", "400 processing")
    /\ processing_status.is_processing
    /\ \E j \in JobIds : Executing(j)

\* the step in which handler h answers a start call that passed line 388
StartAnswered(h) ==
    /\ reqs[h].pc \in {"P402", "P406", "P408"}
    /\ reqs'[h].pc = "idle"

Quiet == \A j \in JobIds : jobs[j].pc = "free"

\* C3: after a job for URL u has ended in success and nothing was deleted,
\* every later start(u) is a cache hit: it starts no job, so no Download,
\* Transcribe or Translate call, and it answers with the cached segments
C3_CacheHitAfterSuccess ==
    [][\A h \in Handlers :
          (StartAnswered(h) /\ reqs[h].url \in ok /\ Quiet)
             => /\ last' = Response("process", "cached")
                /\ jobs' = jobs]_vars

\* the step in which job j leaves process_podcast_async
JobEnds(j) == jobs[j].pc = "L251" /\ jobs'[j].pc = "free"

\* C4: a job that finds the Episode Record of its URL, started because the
\* recorded audio file was missing, and in which no call raises, calls
\* Download exactly once and neither Transcribe nor Translate, rewrites the
\* record with the cached segments and the new audio path, and ends Done
\* (is_processing false, no error, progress 100)
C4_PartialRecovery ==
    [][\A j \in JobIds :
          /\ (jobs[j].pc = "L174" /\ jobs'[j].pc = "L176")
                => /\ cache_files'[Eid(j)].audio_path = mp3_path(jobs[j].url)
                   /\ cache_files'[Eid(j)].segments = jobs[j].cached.segments
          /\ (JobEnds(j) /\ jobs[j].mode = "cached" /\ jobs[j].exc = None)
                => /\ jobs[j].log = <<"download", "cache_write">>
                   /\ processing_status'.is_processing = FALSE
                   /\ processing_status'.error = None
                   /\ processing_status'.progress = 100]_vars

FullChain == <<"download", "transcribe", "translate", "cache_write">>

IsPrefix(s, t) == Len(s) <= Len(t) /\ \A k \in 1..Len(s) : s[k] = t[k]

Translated(segs) == \A k \in 1..Len(segs) : segs[k].translation # NoTranslation

\* C5: a job that finds no Episode Record for its URL performs Download,
\* Transcribe, Translate, Cache-write in that order, each at most once and
\* without skipping one; a record is written only once every segment has a
\* translation, and Done is reported only after the record was written
C5_FullChainOrder ==
    /\ \A j \in JobIds :
          jobs[j].mode = "full" =>
             /\ IsPrefix(jobs[j].log, FullChain)
             /\ jobs[j].pc \in {"L233", "L234", "L244"} => Translated(jobs[j].segments)
             /\ (jobs[j].pc = "L244" \/ (jobs[j].pc = "L251" /\ jobs[j].exc = None))
                   => jobs[j].log = FullChain
    /\ \A e \in EpisodeIds :
          IsRecord(cache_files[e]) => Translated(cache_files[e].segments)

\* a job has run the full chain and reported Done, its record is in the cache
C5_Witness ==
    \E j \in JobIds :
       /\ jobs[j].mode = "full" /\ jobs[j].pc = "L251" /\ jobs[j].exc = None
       /\ jobs[j].log = FullChain
       /\ cache_files[Eid(j)] = NewRecord(jobs[j])
       /\ processing_status.progress = 100

\* C6: a job in which Download, Transcribe or the cache write failed ends with
\* the failure description in Job Status error and is_processing false, has
\* written no Episode Record, and has removed no audio file
C6_FailureEndsInError ==
    [][\A j \in JobIds :
          /\ (JobEnds(j) /\ jobs[j].exc # None)
                => /\ processing_status'.error = jobs[j].exc
                   /\ processing_status'.is_processing = FALSE
                   /\ "cache_write" \notin {jobs[j].log[k] : k \in 1..Len(jobs[j].log)}
          /\ jobs'[j] # jobs[j] => disk \subseteq disk']_vars

\* C7: every accepted start call resets the error of the previous job; for the
\* cache hit: when a start call that arrived after a job had failed is answered
\* from the cache, Job Status carries the new episode_id and no longer that error
C7_StartResetsError ==
    [][\A h \in Handlers :
          (reqs[h].pc = "P408" /\ reqs'[h].pc = "idle" /\ reqs[h].found_error # None)
             => /\ processing_status'.episode_id = get_episode_id(reqs[h].url)
                /\ processing_status'.error # reqs[h].found_error]_vars

HasMarker(segs) == \E k \in 1..Len(segs) : segs[k].translation = ErrorMarker

\* C8: a failed translation of one segment never aborts the job: the call
\* returns the error marker and does not raise, only that segment gets the
\* marker, the loop goes on to the remaining segments, and a job that carries
\* a marker and in which no other call raised has written the Episode Record
\* and ends Done with no Job Status error
C8_TranslationFailureIsLocal ==
    [][\A j \in JobIds :
          /\ jobs[j].pc = "TL_seg" /\ jobs'[j] # jobs[j]
                => /\ jobs'[j].exc = None
                   /\ jobs'[j].pc = IF jobs[j].i = Len(jobs[j].segments)
                                    THEN "TL_end" ELSE "TL_seg"
                   /\ \A k \in 1..Len(jobs[j].segments) :
                         k # jobs[j].i => jobs'[j].segments[k] = jobs[j].segments[k]
          /\ (JobEnds(j) /\ jobs[j].exc = None /\ HasMarker(jobs[j].segments))
                => /\ jobs[j].log = FullChain
                   /\ processing_status'.error = None
                   /\ processing_status'.is_processing = FALSE]_vars

\* C9: every accepted job finalizes: when the last running job thread ends,
\* is_processing is false and Job Status shows a failure (error set) or a
\* success (progress 100 and no error)
C9_JobFinalizes ==
    [][((\E j \in JobIds : JobEnds(j)) /\ Quiet')
          => /\ processing_status'.is_processing = FALSE
             /\ \/ processing_status'.error # None
                \/ processing_status'.progress = 100]_vars

\* a step of a request handler: it takes a request or goes on with one
HandlerStep == served' # served \/ reqs' # reqs

\* C10: Job Status has a single writer: while is_processing is true no step of
\* a request handler changes any field of the Job Status
C10_SingleWriter ==
    [][(processing_status.is_processing /\ HandlerStep)
          => processing_status' = processing_status]_vars

\* a writer of record e is inside save_to_cache, between open and json.dump
Writing(e) ==
    \/ \E h \in Handlers : reqs[h].pc = "U501" /\ get_episode_id(reqs[h].url) = e
    \/ \E j \in JobIds : jobs[j].pc \in {"L174", "L234"} /\ Eid(j) = e

\* C11: a read of an episode record that runs while a write of the same
\* record is under way sees the whole old or the whole new record, never an
\* empty or partly written file
C11_ReadsSeeWholeRecords ==
    [][/\ \A j \in JobIds :
             (jobs[j].pc = "L162" /\ jobs'[j] # jobs[j] /\ Writing(Eid(j)))
                => load_from_cache(Eid(j)) # Truncated
       /\ \A h \in Handlers :
             (reqs[h].pc \in {"P402", "X473"} /\ reqs'[h] # reqs[h]
                 /\ Writing(get_episode_id(reqs[h].url)))
                => load_from_cache(get_episode_id(reqs[h].url)) # Truncated]_vars

\* C12: no read-modify-write of a record interleaves with another writer: a
\* re-download job that rewrites the record after a difficulty edit was
\* acknowledged does not put back the older difficulty, and a difficulty edit
\* does not put back an older audio path
C12_NoLostUpdate ==
    [][/\ \A j \in JobIds :
             (jobs[j].pc = "L173" /\ jobs'[j].pc = "L174"
                 /\ last = Response("update_difficulty", "200")
                 /\ IsRecord(cache_files[Eid(j)]))
                => jobs[j].cached.difficulty = cache_files[Eid(j)].difficulty
       /\ \A h \in Handlers :
             (reqs[h].pc = "U500" /\ reqs'[h].pc = "U501"
                 /\ IsRecord(cache_files[get_episode_id(reqs[h].url)]))
                => reqs[h].cached.audio_path
                      = cache_files[get_episode_id(reqs[h].url)].audio_path]_vars

-----------------------------------------------------------------------------
(* services/transcriber.py: the segmenter (_split_text, _smart_split), the
   noise filter (_is_non_speech) and the assembly loop of transcribe.
   A text is a sequence of one-character strings; the only whitespace
   character of the texts followed here is the space. *)

MIN_WORDS_PER_SEGMENT == 6

MAX_WORDS_PER_SEGMENT == 15

Space == " "

\* str.lstrip(), str.rstrip(), str.strip()
RECURSIVE lstrip(_)
lstrip(t) == IF t # <<>> /\ Head(t) = Space THEN lstrip(Tail(t)) ELSE t

RECURSIVE rstrip(_)
rstrip(t) ==
    IF t # <<>> /\ t[Len(t)] = Space THEN rstrip(SubSeq(t, 1, Len(t) - 1)) ELSE t

strip(t) == rstrip(lstrip(t))

\* the index of the first c in t, 0 when there is none (str.find, counted from 1)
find(t, c) ==
    IF \E i \in 1..Len(t) : t[i] = c
    THEN CHOOSE i \in 1..Len(t) : t[i] = c /\ \A k \in 1..(i - 1) : t[k] # c
    ELSE 0

\* str.split(sep) for a one-character sep: empty parts are kept
RECURSIVE split_at(_, _)
split_at(t, sep) ==
    IF find(t, sep) = 0 THEN <<t>>
    ELSE <<SubSeq(t, 1, find(t, sep) - 1)>>
            \o split_at(SubSeq(t, find(t, sep) + 1, Len(t)), sep)

\* [p.strip() for p in parts if p.strip()]
RECURSIVE stripped_parts(_)
stripped_parts(parts) ==
    IF parts = <<>> THEN <<>>
    ELSE IF strip(Head(parts)) = <<>> THEN stripped_parts(Tail(parts))
    ELSE <<strip(Head(parts))>> \o stripped_parts(Tail(parts))

\* str.split(): the words of a text
split(t) == stripped_parts(split_at(t, Space))

\* sep.join(parts)
RECURSIVE join(_, _)
join(sep, parts) ==
    IF parts = <<>> THEN <<>>
    ELSE IF Len(parts) = 1 THEN parts[1]
    ELSE parts[1] \o sep \o join(sep, Tail(parts))

\* re.split(r'(?<=[.!?])\s+', text): the text is cut at every run of whitespace
\* that follows '.', '!' or '?'
sentence_break(t) ==
    IF \E i \in 2..Len(t) : t[i] = Space /\ t[i - 1] \in {".", "!", "?"}
    THEN CHOOSE i \in 2..Len(t) :
            /\ t[i] = Space /\ t[i - 1] \in {".", "!", "?"}
            /\ \A k \in 2..(i - 1) : ~(t[k] = Space /\ t[k - 1] \in {".", "!", "?"})
    ELSE 0

RECURSIVE re_split(_)
re_split(t) ==
    IF sentence_break(t) = 0 THEN <<t>>
    ELSE <<SubSeq(t, 1, sentence_break(t) - 1)>>
            \o re_split(lstrip(SubSeq(t, sentence_break(t), Len(t))))

\* _smart_split, lines 280-294: comma-separated parts are merged up to the limit
RECURSIVE merge_comma_parts(_, _, _)
merge_comma_parts(parts, current, result) ==
    IF parts = <<>>
    THEN IF current # <<>> THEN Append(result, current) ELSE result
    ELSE IF current = <<>>
    THEN merge_comma_parts(Tail(parts), Head(parts), result)
    ELSE LET combined == current \o <<",", " ">> \o Head(parts)
         IN IF Len(split(combined)) <= MAX_WORDS_PER_SEGMENT
            THEN merge_comma_parts(Tail(parts), combined, result)
            ELSE merge_comma_parts(Tail(parts), Head(parts), Append(result, current))

\* _smart_split, lines 301-305: chunks of MAX_WORDS_PER_SEGMENT words
RECURSIVE chunks(_)
chunks(words) ==
    IF words = <<>> THEN <<>>
    ELSE IF Len(words) <= MAX_WORDS_PER_SEGMENT THEN <<join(<<Space>>, words)>>
    ELSE <<join(<<Space>>, SubSeq(words, 1, MAX_WORDS_PER_SEGMENT))>>
            \o chunks(SubSeq(words, MAX_WORDS_PER_SEGMENT + 1, Len(words)))

smart_split(text) ==
    LET result == merge_comma_parts(stripped_parts(split_at(text, ",")), <<>>, <<>>)
    IN IF find(text, ",") # 0
          /\ \A k \in 1..Len(result) : Len(split(result[k])) <= MAX_WORDS_PER_SEGMENT
       THEN result
       ELSE chunks(split(text))

\* _split_text, lines 218-229
RECURSIVE split_long_parts(_)
split_long_parts(parts) ==
    IF parts = <<>> THEN <<>>
    ELSE (IF Len(split(Head(parts))) <= MAX_WORDS_PER_SEGMENT
          THEN <<Head(parts)>> ELSE smart_split(Head(parts)))
            \o split_long_parts(Tail(parts))

\* a merge that emits the final buffer as it is, however small
RECURSIVE merge_small_keeping_tail(_, _, _)
merge_small_keeping_tail(result, current, merged) ==
    IF result = <<>>
    THEN IF current # <<>> THEN Append(merged, current) ELSE merged
    ELSE LET part == strip(Head(result))
             combined == current \o <<Space>> \o part
             combined_words == Len(split(combined))
         IN IF part = <<>> THEN merge_small_keeping_tail(Tail(result), current, merged)
            ELSE IF current = <<>> THEN merge_small_keeping_tail(Tail(result), part, merged)
            ELSE IF combined_words <= MAX_WORDS_PER_SEGMENT
            THEN merge_small_keeping_tail(Tail(result), combined, merged)
            ELSE IF Len(split(current)) >= MIN_WORDS_PER_SEGMENT
            THEN merge_small_keeping_tail(Tail(result), part, Append(merged, current))
            ELSE IF combined_words <= MAX_WORDS_PER_SEGMENT + 5
            THEN merge_small_keeping_tail(Tail(result), combined, merged)
            ELSE merge_small_keeping_tail(Tail(result), part, Append(merged, current))

\* _split_text, lines 232-267: small parts are merged
RECURSIVE merge_small(_, _, _)
merge_small(result, current, merged) ==
    IF result = <<>>
    THEN IF current # <<>>
         THEN IF Len(split(current)) < MIN_WORDS_PER_SEGMENT /\ merged # <<>>
              THEN Append(SubSeq(merged, 1, Len(merged) - 1),
                          merged[Len(merged)] \o <<Space>> \o current)
              ELSE Append(merged, current)
         ELSE merged
    ELSE LET part == strip(Head(result))
             combined == current \o <<Space>> \o part
             combined_words == Len(split(combined))
         IN IF part = <<>> THEN merge_small(Tail(result), current, merged)
            ELSE IF current = <<>> THEN merge_small(Tail(result), part, merged)
            ELSE IF combined_words <= MAX_WORDS_PER_SEGMENT
            THEN merge_small(Tail(result), combined, merged)
            ELSE IF Len(split(current)) >= MIN_WORDS_PER_SEGMENT
            THEN merge_small(Tail(result), part, Append(merged, current))
            ELSE IF combined_words <= MAX_WORDS_PER_SEGMENT + 5
            THEN merge_small(Tail(result), combined, merged)
            ELSE merge_small(Tail(result), part, Append(merged, current))

\* _split_text returning merged as it is, without the fallback of line 269
split_text_without_fallback(text) ==
    LET parts == stripped_parts(re_split(text))
    IN merge_small(split_long_parts(IF parts = <<>> THEN <<text>> ELSE parts), <<>>, <<>>)

\* a split that returns the pieces without their closing mark
split_text_dropping_marks(text) ==
    LET parts == stripped_parts(re_split(text))
        merged == merge_small(split_long_parts(IF parts = <<>> THEN <<text>> ELSE parts),
                              <<>>, <<>>)
        bare(piece) == IF piece # <<>> /\ piece[Len(piece)] \in {".", "!", "?"}
                       THEN SubSeq(piece, 1, Len(piece) - 1) ELSE piece
    IN IF merged # <<>> THEN [i \in 1..Len(merged) |-> bare(merged[i])] ELSE <<text>>

split_text(text) ==
    LET parts == stripped_parts(re_split(text))
        merged == merge_small(split_long_parts(IF parts = <<>> THEN <<text>> ELSE parts),
                              <<>>, <<>>)
    IN IF merged # <<>> THEN merged ELSE <<text>>


-----------------------------------------------------------------------------
\* services/transcriber.py: the noise filter (_is_non_speech, lines 307-380).
\* A character outside ASCII is written by its code point ("U+266A" is the
\* eighth note): it is one character of the text like any other.

chars(s) == [i \in 1..Len(s) |-> SubSeq(s, i, i)]

Lowercase == chars("abcdefghijklmnopqrstuvwxyz")
Uppercase == chars("ABCDEFGHIJKLMNOPQRSTUVWXYZ")

\* str.lower
lower(t) ==
    [i \in 1..Len(t) |->
        IF \E k \in 1..26 : Uppercase[k] = t[i]
        THEN Lowercase[CHOOSE k \in 1..26 : Uppercase[k] = t[i]]
        ELSE t[i]]

\* str.find, counted from 1: where m first occurs in t, 0 when it does not
index_of(t, m) ==
    LET at == {i \in 1..(Len(t) - Len(m) + 1) : SubSeq(t, i, i + Len(m) - 1) = m}
    IN IF at = {} THEN 0 ELSE CHOOSE i \in at : \A k \in at : i <= k

\* str.replace(m, '')
RECURSIVE replace(_, _)
replace(t, m) ==
    IF index_of(t, m) = 0 THEN t
    ELSE SubSeq(t, 1, index_of(t, m) - 1)
            \o replace(SubSeq(t, index_of(t, m) + Len(m), Len(t)), m)

\* the characters \w matches among those of the texts and markers
WordChars ==
    {Lowercase[k] : k \in 1..26} \cup {Uppercase[k] : k \in 1..26}
        \cup {"0", "1", "2", "3", "4", "5", "6", "7", "8", "9", "_"}
        \cup {"U+00FA", "U+00EA", "U+00ED", "U+00E7", "U+00E3"}

\* re.sub(r'[^\w\s]', '', t)
remove_punctuation(t) == SelectSeq(t, LAMBDA c : c \in WordChars \/ c = Space)

\* re.sub(r'\[.*?\]', '', t) and re.sub(r'\([^)]*\)', '', t): every stretch from
\* an opening character to the first closing character after it is removed
RECURSIVE remove_enclosed(_, _, _)
remove_enclosed(t, open, close) ==
    LET i == index_of(t, <<open>>)
        j == IF i = 0 THEN 0 ELSE index_of(SubSeq(t, i + 1, Len(t)), <<close>>)
    IN IF i = 0 \/ j = 0 THEN t
       ELSE SubSeq(t, 1, i - 1) \o remove_enclosed(SubSeq(t, i + j + 1, Len(t)), open, close)

\* lines 318-343
non_speech_markers ==
    << chars("[music]"), chars("[m") \o <<"U+00FA">> \o chars("sica]"), chars("[musica]"),
       chars("[music playing]"),
       chars("[applause]"), chars("[aplausos]"), chars("[clapping]"),
       chars("[laughter]"), chars("[laughing]"), chars("[risadas]"), chars("[risos]"),
       chars("[silence]"), chars("[sil") \o <<"U+00EA">> \o chars("ncio]"), chars("[silencio]"),
       chars("[inaudible]"), chars("[inaud") \o <<"U+00ED">> \o chars("vel]"),
       chars("[inaudivel]"),
       chars("[noise]"), chars("[ru") \o <<"U+00ED">> \o chars("do]"), chars("[ruido]"),
       chars("[background noise]"),
       chars("[crosstalk]"), chars("[cross talk]"),
       chars("[foreign]"), chars("[foreign language]"), chars("[speaking foreign language]"),
       chars("[blank_audio]"), chars("[blank audio]"), chars("[no audio]"),
       chars("[sounds]"), chars("[sound]"), chars("[sound effect]"),
       chars("[breathing]"), chars("[respira") \o <<"U+00E7", "U+00E3">> \o chars("o]"),
       chars("[heavy breathing]"),
       chars("[coughing]"), chars("[tosse]"), chars("[cough]"),
       chars("[sighing]"), chars("[suspiro]"), chars("[sigh]"),
       chars("[singing]"), chars("[cantando]"),
       chars("[humming]"),
       chars("[phone ringing]"), chars("[bell]"),
       chars("[door]"), chars("[footsteps]"),
       <<"U+266A">>, <<"U+266B">>, <<"U+1F3B5">>, <<"U+1F3B6">>,
       chars("thank you."), chars("thanks for watching"),
       chars("please subscribe"), chars("like and subscribe"),
       chars("see you next time"), chars("bye bye") >>

\* line 362, the character class
Symbols == {"U+266A", "U+266B", "U+1F3B5", "U+1F3B6", Space, ".", ",", "!", "?"}

\* the pattern of line 362 without its anchors: some character of the text is a symbol
some_symbol(text) == \E i \in 1..Len(text) : text[i] \in Symbols

\* line 362: re.match(r'^[...]+$', text)
only_symbols(text) == text # <<>> /\ \A i \in 1..Len(text) : text[i] \in Symbols

is_non_speech(text) ==
    \E text_lower \in {strip(lower(text))} :
    LET \* lines 346-353
        mostly_marker(marker) ==
            /\ index_of(text_lower, marker) # 0
            /\ Len(strip(remove_punctuation(strip(replace(text_lower, marker))))) < 5
        \* lines 366-371
        words == split(text_lower)
        \* line 374: an opening parenthesis, one of the words before any closing
        \* parenthesis, and a closing parenthesis after it
        paren_marker ==
            \E i \in {n \in 1..Len(text_lower) : text_lower[n] = "("} :
            \E w \in {chars("music"), chars("applause"), chars("laughter"),
                      chars("singing"), chars("humming")} :
            \E k \in (i + 1)..(Len(text_lower) - Len(w) + 1) :
               /\ SubSeq(text_lower, k, k + Len(w) - 1) = w
               /\ \A n \in (i + 1)..(k - 1) : text_lower[n] # ")"
               /\ \E n \in (k + Len(w))..Len(text_lower) : text_lower[n] = ")"
    IN IF strip(text) = <<>> THEN TRUE
       ELSE IF \E m \in 1..Len(non_speech_markers) : mostly_marker(non_speech_markers[m])
            THEN TRUE
       ELSE IF Len(strip(remove_enclosed(text, "[", "]"))) < 3 THEN TRUE
       ELSE IF only_symbols(text) THEN TRUE
       ELSE IF Len(words) >= 3 /\ Len(words) >= 4
                  /\ \A i \in 1..Len(words) : words[i] = words[1] THEN TRUE
       ELSE IF paren_marker /\ Len(strip(remove_enclosed(text, "(", ")"))) < 5 THEN TRUE
       ELSE FALSE

-----------------------------------------------------------------------------
\* The timestamps are Python floats: IEEE 754 binary64, every operation rounded
\* to the nearest value of 53 significant bits, ties to the even one.  A float
\* is m * 2^e with 2^52 <= m < 2^53; m is written in limbs of 15 bits, lowest
\* first, so that no step leaves the integers TLC computes with.

Limb == 2^15

RECURSIVE nat(_)
nat(n) == IF n = 0 THEN <<>> ELSE <<n % Limb>> \o nat(n \div Limb)

RECURSIVE nat_add(_, _, _)
nat_add(a, b, carry) ==
    IF a = <<>> /\ b = <<>> THEN (IF carry = 0 THEN <<>> ELSE <<carry>>)
    ELSE LET sum == (IF a = <<>> THEN 0 ELSE Head(a)) + (IF b = <<>> THEN 0 ELSE Head(b)) + carry
         IN <<sum % Limb>> \o nat_add(IF a = <<>> THEN <<>> ELSE Tail(a),
                                      IF b = <<>> THEN <<>> ELSE Tail(b), sum \div Limb)

RECURSIVE trim(_)
trim(a) == IF a # <<>> /\ a[Len(a)] = 0 THEN trim(SubSeq(a, 1, Len(a) - 1)) ELSE a

\* a - b - borrow, for a >= b + borrow
RECURSIVE nat_sub(_, _, _)
nat_sub(a, b, borrow) ==
    IF a = <<>> THEN <<>>
    ELSE LET d == Head(a) - (IF b = <<>> THEN 0 ELSE Head(b)) - borrow
         IN <<IF d < 0 THEN d + Limb ELSE d>>
               \o nat_sub(Tail(a), IF b = <<>> THEN <<>> ELSE Tail(b), IF d < 0 THEN 1 ELSE 0)

\* a * d + carry, for d < Limb
RECURSIVE nat_times(_, _, _)
nat_times(a, d, carry) ==
    IF a = <<>> THEN (IF carry = 0 THEN <<>> ELSE <<carry>>)
    ELSE <<(Head(a) * d + carry) % Limb>>
            \o nat_times(Tail(a), d, (Head(a) * d + carry) \div Limb)

RECURSIVE nat_mul(_, _)
nat_mul(a, b) ==
    IF a = <<>> \/ b = <<>> THEN <<>>
    ELSE nat_add(nat_times(a, Head(b), 0),
                 IF Tail(b) = <<>> THEN <<>> ELSE <<0>> \o nat_mul(a, Tail(b)), 0)

\* quotient and remainder of a by d, for 0 < d < Limb
RECURSIVE nat_divmod(_, _)
nat_divmod(a, d) ==
    IF a = <<>> THEN [q |-> <<>>, r |-> 0]
    ELSE LET upper == nat_divmod(Tail(a), d)
             cur == upper.r * Limb + Head(a)
         IN [q |-> IF upper.q = <<>> /\ cur \div d = 0 THEN <<>> ELSE <<cur \div d>> \o upper.q,
             r |-> cur % d]

\* a * 2^k and the whole part of a / 2^k
shl(a, k) == IF a = <<>> THEN <<>> ELSE [i \in 1..(k \div 15) |-> 0] \o nat_times(a, 2^(k % 15), 0)
shr(a, k) == nat_divmod(SubSeq(a, (k \div 15) + 1, Len(a)), 2^(k % 15)).q

bits(a) ==
    IF a = <<>> THEN 0
    ELSE 15 * (Len(a) - 1) + CHOOSE n \in 1..15 : 2^(n - 1) <= a[Len(a)] /\ a[Len(a)] < 2^n

nat_less(a, b) ==
    IF Len(a) # Len(b) THEN Len(a) < Len(b)
    ELSE \E i \in 1..Len(a) : a[i] < b[i] /\ \A k \in (i + 1)..Len(a) : a[k] = b[k]

Zero == [m |-> <<>>, e |-> 0]

\* the float nearest to (M + f) * 2^e, where 0 <= f < 1 and sticky says f > 0
float_round(M, e, sticky) ==
    IF M = <<>> THEN Zero
    ELSE IF bits(M) <= 53 THEN [m |-> shl(M, 53 - bits(M)), e |-> e - (53 - bits(M))]
    ELSE LET k == bits(M) - 53
             q == shr(M, k)
             rest == trim(nat_sub(M, shl(q, k), 0))
             half == shl(<<1>>, k - 1)
             up == \/ nat_less(half, rest)
                   \/ rest = half /\ (sticky \/ q[1] % 2 = 1)
             r == IF up THEN nat_add(q, <<1>>, 0) ELSE q
         IN IF bits(r) = 54 THEN [m |-> shr(r, 1), e |-> e + k + 1]
            ELSE [m |-> r, e |-> e + k]

MinOf(a, b) == IF a <= b THEN a ELSE b

\* x + y, x - y (for x >= y), x * y, x / d (for an integer 0 < d < Limb), x <= y
float_add(x, y) ==
    float_round(nat_add(shl(x.m, x.e - MinOf(x.e, y.e)),
                        shl(y.m, y.e - MinOf(x.e, y.e)), 0), MinOf(x.e, y.e), FALSE)

float_sub(x, y) ==
    float_round(trim(nat_sub(shl(x.m, x.e - MinOf(x.e, y.e)),
                             shl(y.m, y.e - MinOf(x.e, y.e)), 0)), MinOf(x.e, y.e), FALSE)

float_mul(x, y) == float_round(nat_mul(x.m, y.m), x.e + y.e, FALSE)

float_div(x, d) ==
    float_round(nat_divmod(shl(x.m, 75), d).q, x.e - 75, nat_divmod(shl(x.m, 75), d).r # 0)

float_le(x, y) ==
    ~nat_less(shl(y.m, y.e - MinOf(x.e, y.e)), shl(x.m, x.e - MinOf(x.e, y.e)))

\* the float of n * 2^e
float(n, e) == float_round(nat(n), e, FALSE)

-----------------------------------------------------------------------------
\* Calls of the segmenter followed on their own.  The web application is at
\* rest meanwhile: a call of _split_text touches none of its state.

pipeline == <<processing_status, cache_files, disk, jobs, reqs, served, last, env, ok>>

AtRest ==
    /\ processing_status = [progress |-> 0, message |-> "Ready to start",
                            is_processing |-> FALSE, segments |-> <<>>,
                            audio_path |-> None, error |-> None, episode_id |-> None]
    /\ cache_files = [e \in EpisodeIds |-> Missing]
    /\ disk = {}
    /\ jobs = [j \in JobIds |-> FreeJob]
    /\ reqs = [h \in Handlers |-> IdleReq]
    /\ served = 0
    /\ last = Response(None, None)
    /\ env = Clients(0, {})
    /\ ok = {}

\* The texts handed to the segmenter: up to MaxClauses clauses of one-letter
\* words, each clause closed by nothing, a comma or a full stop, and a few
\* texts written out.
MaxClauses == 3

Letters ==
    <<"a", "b", "c", "d", "e", "f", "g", "h", "i", "j", "k", "l", "m",
      "n", "o", "p", "q", "r", "s", "t", "u", "v", "w", "x", "y", "z",
      "A", "B", "C", "D", "E", "F", "G", "H", "I", "J", "K", "L", "M",
      "N", "O", "P", "Q", "R", "S", "T", "U", "V", "W", "X", "Y", "Z">>

word(k) == <<Letters[((k - 1) % Len(Letters)) + 1]>>

RECURSIVE clause(_, _, _)
clause(first, n, mark) ==
    IF n = 1 THEN word(first) \o mark
    ELSE word(first) \o <<Space>> \o clause(first + 1, n - 1, mark)

ClauseWords == {1, 5, 9, 16}
Marks == {<<>>, <<",">>, <<".">>}
Shapes == UNION {[1..k -> ClauseWords \X Marks] : k \in 0..MaxClauses}

RECURSIVE text_of(_, _)
text_of(shape, first) ==
    IF shape = <<>> THEN <<>>
    ELSE clause(first, Head(shape)[1], Head(shape)[2])
            \o (IF Len(shape) = 1 THEN <<>>
                ELSE <<Space>> \o text_of(Tail(shape), first + Head(shape)[1]))

Texts ==
    {text_of(shape, 1) : shape \in Shapes}
        \cup { <<Space>>, <<Space, Space>>,
               <<"a", ",">> \o clause(2, 16, <<".">>),
               clause(1, 8, <<>>) \o <<Space, ",", Space>> \o clause(9, 10, <<>>),
               clause(1, 7, <<"?">>) \o <<Space, Space>> \o clause(8, 7, <<"!">>),
               clause(1, 8, <<>>) \o <<Space, "a", "n", "d", Space>>
                    \o clause(9, 9, <<".">>) }

InitSegmenter ==
    /\ AtRest
    /\ \E text \in Texts : call = [op |-> "_split_text", pc |-> "called",
                                   text |-> text, value |-> <<>>]

\* lines 202-269, the whole call
Segmenter_split ==
    /\ call.op = "_split_text" /\ call.pc = "called"
    /\ call' = [call EXCEPT !.pc = "returned", !.value = split_text(call.text)]
    /\ UNCHANGED pipeline

\* the pieces of a call, joined with single spaces, are split again
Segmenter_split_again ==
    /\ call.op = "_split_text" /\ call.pc = "returned"
    /\ call' = [op |-> "_split_text", pc |-> "split again", text |-> call.text,
                value |-> call.value,
                again |-> split_text(join(<<Space>>, call.value))]
    /\ UNCHANGED pipeline

\* lines 219-229: a sentence of more than MAX_WORDS_PER_SEGMENT words is handed
\* to _smart_split (lines 271-305)
Segmenter_smart_split ==
    /\ call.op = "_split_text" /\ call.pc = "called"
    /\ \E parts \in {stripped_parts(re_split(call.text))} :
         \E i \in 1..Len(parts) :
            /\ Len(split(parts[i])) > MAX_WORDS_PER_SEGMENT
            /\ call' = [op |-> "_smart_split", pc |-> "returned",
                        text |-> parts[i], value |-> smart_split(parts[i])]
    /\ UNCHANGED pipeline

NextSegmenter == Segmenter_split \/ Segmenter_split_again \/ Segmenter_smart_split

SpecSegmenter == InitSegmenter /\ [][NextSegmenter]_vars

Returned(op) == call.op = op /\ call.pc = "returned"

\* C15 as stated: for all text inputs (including empty and whitespace-only
\* text) the split never returns an empty sequence and every returned piece
\* is non-empty after trimming.
C15_PiecesNeverEmpty ==
    Returned("_split_text") =>
        /\ call.value # <<>>
        /\ \A i \in 1..Len(call.value) : strip(call.value[i]) # <<>>

\* C15 as amended: the split never returns an empty sequence; every returned
\* piece is non-empty after trimming when the input is non-empty after
\* trimming; an empty or whitespace-only input comes back as the one piece.
C15_PiecesNeverEmptyForText ==
    Returned("_split_text") =>
        /\ call.value # <<>>
        /\ strip(call.text) # <<>> =>
              \A i \in 1..Len(call.value) : strip(call.value[i]) # <<>>
        /\ strip(call.text) = <<>> => call.value = <<call.text>>

C15_Witness ==
    /\ Returned("_split_text")
    /\ Len(call.value) > 2
    /\ \E i \in 1..Len(call.text) : call.text[i] = ","

RECURSIVE words_of(_)
words_of(pieces) ==
    IF pieces = <<>> THEN <<>> ELSE split(Head(pieces)) \o words_of(Tail(pieces))

\* C16: the segmenter never discards content: the words of the returned
\* pieces, concatenated in order, are exactly the words of the input in the
\* same order.
C16_NoContentDiscarded ==
    Returned("_split_text") => words_of(call.value) = split(call.text)

-----------------------------------------------------------------------------
\* Calls of the noise filter followed on their own.

\* The texts handed to the noise filter: up to MaxAtoms of the atoms below in a
\* row, and the greeting of the documentation.
MaxAtoms == 3

Atoms ==
    { chars("[Music]"), chars("(music)"), chars("(x)"), chars("la"), chars("Thank you."),
      chars("Bye"), <<Space>>, <<"U+266A">>, <<".">>, chars("[x]") }

RECURSIVE concat(_)
concat(ts) == IF ts = <<>> THEN <<>> ELSE Head(ts) \o concat(Tail(ts))

Greeting == chars("Hello, how are you today?")

NoiseTexts ==
    {concat(ts) : ts \in UNION {[1..k -> Atoms] : k \in 0..MaxAtoms}} \cup {Greeting}

InitNoiseFilter ==
    /\ AtRest
    /\ \E text \in NoiseTexts : call = [op |-> "_is_non_speech", pc |-> "called",
                                        text |-> text, value |-> FALSE]

\* lines 307-380, the whole call
NoiseFilter_call ==
    /\ call.op = "_is_non_speech" /\ call.pc = "called"
    /\ call' = [call EXCEPT !.pc = "returned", !.value = is_non_speech(call.text)]
    /\ UNCHANGED pipeline

NextNoiseFilter == NoiseFilter_call

SpecNoiseFilter == InitNoiseFilter /\ [][NextNoiseFilter]_vars

\* C17: the noise filter classifies the empty string and "[Music]" as
\* non-speech and "Hello, how are you today?" as speech, and its call changes
\* nothing: neither the text it was given nor any state of the application.
C17_NoiseFilterExamples ==
    [][(call.op = "_is_non_speech" /\ call.pc = "called" /\ call'.pc = "returned")
          => /\ call.text = <<>> => call'.value = TRUE
             /\ call.text = chars("[Music]") => call'.value = TRUE
             /\ call.text = Greeting => call'.value = FALSE
             /\ call'.text = call.text
             /\ pipeline' = pipeline]_vars

C17_Witness ==
    Returned("_is_non_speech") /\ call.text = Greeting /\ call.value = FALSE

-----------------------------------------------------------------------------
\* services/transcriber.py: the assembly loop of transcribe (lines 85-136),
\* followed on its own over the utterances the speech recognition returned.

Segment(id, start, end, text) ==
    [id |-> id, start |-> start, end |-> end, text |-> text, translation |-> NoTranslation]

\* lines 106-118: origin is history, the utterance each Segment was made from
RECURSIVE part_segments(_, _, _, _, _, _)
part_segments(parts, n_parts, total_chars, duration, current_time, segment_id) ==
    IF parts = <<>> THEN <<>>
    ELSE LET part_duration ==
                 IF total_chars > 0
                 THEN float_mul(float_div(float(Len(Head(parts)), 0), total_chars), duration)
                 ELSE float_div(duration, n_parts)
             part_end == float_add(current_time, part_duration)
         IN <<Segment(segment_id, current_time, part_end, Head(parts))>>
               \o part_segments(Tail(parts), n_parts, total_chars, duration,
                                part_end, segment_id + 1)

\* The utterances: spans between the times below, counted in quarters of a
\* second, over the texts below; a list holds up to MaxUtterances of them.
MaxUtterances == 2

Quarters == {0, 6, 29, 36}

UtteranceTexts ==
    { <<>>, chars(" [Music]"), chars("la la la la"),
      <<Space>> \o Greeting,
      clause(1, 6, <<".">>) \o <<Space>> \o clause(7, 7, <<".">>)
          \o <<Space>> \o clause(14, 7, <<".">>),
      clause(1, 9, <<".">>) \o <<Space>> \o clause(10, 9, <<".">>)
          \o <<Space>> \o clause(19, 9, <<".">>) }

Utterances ==
    {[start |-> float(a, -2), end |-> float(b, -2), text |-> t] :
        a \in Quarters, b \in Quarters, t \in UtteranceTexts}

UtteranceLists ==
    UNION {[1..k -> {u \in Utterances : ~float_le(u.end, u.start)}] : k \in 0..MaxUtterances}

InitAssembler ==
    /\ AtRest
    /\ \E result \in UtteranceLists :
          call = [op |-> "transcribe", pc |-> "L88", result |-> result, i |-> 1,
                  segments |-> <<>>, segment_id |-> 0, origin |-> <<>>]

InLoop == call.op = "transcribe" /\ call.pc = "L88" /\ call.i <= Len(call.result)

\* lines 88-95 without the continue of line 95: the non-speech utterance goes on
\* to lines 119-127 and becomes a Segment
transcribe_L95_emitting ==
    /\ InLoop
    /\ \E seg \in {call.result[call.i]} :
       \E text \in {strip(seg.text)} :
          /\ is_non_speech(text)
          /\ call' = [call EXCEPT
                !.segments = Append(@, Segment(call.segment_id, seg.start, seg.end, text)),
                !.segment_id = @ + 1,
                !.origin = Append(@, call.i),
                !.i = @ + 1]
    /\ UNCHANGED pipeline

\* lines 88-95: a non-speech utterance is skipped
transcribe_L95 ==
    /\ InLoop
    /\ \E text \in {strip(call.result[call.i].text)} : is_non_speech(text)
    /\ call' = [call EXCEPT !.i = @ + 1]
    /\ UNCHANGED pipeline

\* lines 88-118: an utterance of several parts
transcribe_L100 ==
    /\ InLoop
    /\ \E seg \in {call.result[call.i]} :
       \E text \in {strip(seg.text)} :
       \E parts \in {split_text(text)} :
       LET total_chars == SumSeq([k \in 1..Len(parts) |-> Len(parts[k])])
       IN /\ ~is_non_speech(text)
          /\ Len(parts) > 1
          /\ call' = [call EXCEPT
                !.segments = @ \o part_segments(parts, Len(parts), total_chars,
                                                float_sub(seg.end, seg.start), seg.start,
                                                call.segment_id),
                !.segment_id = @ + Len(parts),
                !.origin = @ \o [k \in 1..Len(parts) |-> call.i],
                !.i = @ + 1]
    /\ UNCHANGED pipeline

\* lines 88-99, 119-127: an utterance of one part
transcribe_L120 ==
    /\ InLoop
    /\ \E seg \in {call.result[call.i]} :
       \E text \in {strip(seg.text)} :
          /\ ~is_non_speech(text)
          /\ ~(Len(split_text(text)) > 1)
          /\ call' = [call EXCEPT
                !.segments = Append(@, Segment(call.segment_id, seg.start, seg.end, text)),
                !.segment_id = @ + 1,
                !.origin = Append(@, call.i),
                !.i = @ + 1]
    /\ UNCHANGED pipeline

\* line 136
transcribe_L136 ==
    /\ call.op = "transcribe" /\ call.pc = "L88" /\ call.i > Len(call.result)
    /\ call' = [call EXCEPT !.pc = "returned"]
    /\ UNCHANGED pipeline

NextAssembler == transcribe_L95 \/ transcribe_L100 \/ transcribe_L120 \/ transcribe_L136

SpecAssembler == InitAssembler /\ [][NextAssembler]_vars

\* the Segments made from utterance u, by their places in the list
SegmentsOf(u) == {k \in 1..Len(call.segments) : call.origin[k] = u}

\* C13: the segments derived from a speech utterance u with u.start < u.end
\* are contiguous, non-overlapping and ordered: the first starts at u.start,
\* each ends where the next starts, the last ends at u.end, every one has
\* start < end, and an utterance of a single piece yields one segment
\* spanning [u.start, u.end).
C13_SegmentsSpanUtterance ==
    call.op = "transcribe" =>
       \A u \in 1..(call.i - 1) :
          (~is_non_speech(strip(call.result[u].text))
              /\ ~float_le(call.result[u].end, call.result[u].start)) =>
             /\ SegmentsOf(u) # {}
             /\ \A k \in SegmentsOf(u) :
                   /\ k - 1 \notin SegmentsOf(u) => call.segments[k].start = call.result[u].start
                   /\ k + 1 \in SegmentsOf(u) => call.segments[k].end = call.segments[k + 1].start
                   /\ k + 1 \notin SegmentsOf(u) => call.segments[k].end = call.result[u].end
                   /\ ~float_le(call.segments[k].end, call.segments[k].start)
             /\ Len(split_text(strip(call.result[u].text))) = 1 => Cardinality(SegmentsOf(u)) = 1

\* the utterances are in chronological order and do not overlap
Chronological(result) ==
    /\ \A u \in 1..Len(result) : ~float_le(result[u].end, result[u].start)
    /\ \A u \in 1..(Len(result) - 1) : float_le(result[u].end, result[u + 1].start)

\* C14: the assembled segments carry the ids 0, 1, ..., n-1 in emission order,
\* whatever the utterance boundaries and the filtered utterances; and for
\* chronologically ordered, non-overlapping utterances the segment list is
\* monotonic in time: for i < j, end_i <= start_j.
C14_IdsAndTimesMonotonic ==
    call.op = "transcribe" =>
       /\ call.segment_id = Len(call.segments)
       /\ \A k \in 1..Len(call.segments) : call.segments[k].id = k - 1
       /\ Chronological(call.result) =>
             \A i \in 1..Len(call.segments) : \A j \in (i + 1)..Len(call.segments) :
                float_le(call.segments[i].end, call.segments[j].start)

\* C18: an utterance the noise filter classifies as non-speech produces no
\* Segment and consumes no segment id: the step over it leaves the segments
\* and the id counter as they were, and no emitted segment comes from a
\* filtered utterance.
C18_FilteredUtteranceEmitsNothing ==
    [][(call.op = "transcribe" /\ call.pc = "L88" /\ call'.i = call.i + 1) =>
          /\ is_non_speech(strip(call.result[call.i].text)) =>
                (call'.segments = call.segments /\ call'.segment_id = call.segment_id)
          /\ \A k \in 1..Len(call'.segments) :
                ~is_non_speech(strip(call'.result[call'.origin[k]].text))]_vars

C18_Witness ==
    /\ Returned("transcribe")
    /\ Len(call.result) = 2
    /\ is_non_speech(strip(call.result[1].text))
    /\ Len(call.segments) > 1
    /\ call.segments[1].id = 0

-----------------------------------------------------------------------------
\* Calls of calculate_difficulty (web_app.py, lines 94-145) followed on their own.

\* The segments handed over: up to MaxSegments segments of up to MaxWords words
\* of four or six letters, over a few durations in seconds; and one episode of
\* a hundred four-letter words over a minute.
MaxSegments == 2
MaxWords == 4

DifficultyTexts == UNION {[1..k -> {"word", "planet"}] : k \in 0..MaxWords}

Durations == {0, 2, 3, 4}

HundredWords == << [text |-> [k \in 1..50 |-> "word"]], [text |-> [k \in 1..50 |-> "word"]] >>

DifficultyInputs ==
    {[segments |-> segs, duration |-> d] :
        segs \in UNION {[1..n -> [text : DifficultyTexts]] : n \in 0..MaxSegments},
        d \in Durations}
      \cup {[segments |-> HundredWords, duration |-> 60]}

InitDifficulty ==
    /\ AtRest
    /\ \E in \in DifficultyInputs :
          call = [op |-> "calculate_difficulty", pc |-> "L105", segments |-> in.segments,
                  duration |-> in.duration, score |-> 0, wpm_points |-> 0,
                  length_points |-> 0, value |-> None]

AtDifficulty(pc) == call.op = "calculate_difficulty" /\ call.pc = pc

\* lines 105-106
calculate_difficulty_L106 ==
    /\ AtDifficulty("L105")
    /\ call.segments = <<>> \/ call.duration <= 0
    /\ call' = [call EXCEPT !.pc = "returned", !.value = "medium"]
    /\ UNCHANGED pipeline

\* lines 105-127: wpm_points is history, what lines 119-127 add to score
calculate_difficulty_L119 ==
    /\ AtDifficulty("L105")
    /\ ~(call.segments = <<>> \/ call.duration <= 0)
    /\ call' = [call EXCEPT !.pc = "L129",
                            !.wpm_points = wpm_score(call.segments, call.duration),
                            !.score = @ + wpm_score(call.segments, call.duration)]
    /\ UNCHANGED pipeline

\* lines 129-135: length_points is history, what they add to score
calculate_difficulty_L129 ==
    /\ AtDifficulty("L129")
    /\ call' = [call EXCEPT !.pc = "L137",
                            !.length_points = word_length_score(call.segments),
                            !.score = @ + word_length_score(call.segments)]
    /\ UNCHANGED pipeline

\* lines 137-143
calculate_difficulty_L137 ==
    /\ AtDifficulty("L137")
    /\ call' = [call EXCEPT !.pc = "returned", !.value = difficulty_of(call.score)]
    /\ UNCHANGED pipeline

NextDifficulty ==
    \/ calculate_difficulty_L106
    \/ calculate_difficulty_L119
    \/ calculate_difficulty_L129
    \/ calculate_difficulty_L137

SpecDifficulty == InitDifficulty /\ [][NextDifficulty]_vars

WordCount(segs) == SumSeq(WordCounts(segs))
LetterCount(segs) == SumSeq(CharCounts(segs))

HundredWordsReturned ==
    /\ Returned("calculate_difficulty")
    /\ WordCount(call.segments) = 100 /\ LetterCount(call.segments) = 400 /\ call.duration = 60

\* C20 as stated: for segments totalling 100 words over 60 seconds (wpm = 100)
\* with mean word length 4.0 the computation awards 0 speech-rate points and 0
\* word-length points (total score 0) and classifies the episode as easy.
C20_HundredWordsScoreZero ==
    HundredWordsReturned =>
        /\ call.wpm_points = 0 /\ call.length_points = 0 /\ call.score = 0
        /\ call.value = "easy"

\* C20 as amended: for that episode the computation awards 1 speech-rate point
\* (wpm = 100 is not below 100) and 0 word-length points (total score 1) and
\* classifies the episode as easy.
C20_HundredWordsScoreOne ==
    HundredWordsReturned =>
        /\ call.wpm_points = 1 /\ call.length_points = 0 /\ call.score = 1
        /\ call.value = "easy"

C20_Witness == HundredWordsReturned /\ call.value = "easy"

-----------------------------------------------------------------------------
(* The claims about the cache routes and the job status. *)

\* C21: delete on an existing record removes the record and, best effort, the
\* audio file it names: a failed removal of the audio file is swallowed and
\* the record is removed all the same, so that a get finds it absent; delete
\* on an id without a record answers not-found and changes nothing
C21_DeleteRemovesRecord ==
    [][\A h \in Handlers :
          /\ (reqs[h].pc \in {"X473", "X476", "X482"} /\ reqs'[h].pc = "idle")
                => cache_files'[get_episode_id(reqs[h].url)] = Missing
          /\ (reqs[h].pc = "X476" /\ reqs'[h] # reqs[h]) => reqs'[h].pc = "X482"
          /\ (served' = served + 1 /\ last' = Response("delete_cached", "404"))
                => UNCHANGED <<processing_status, cache_files, disk, jobs>>]_vars

-----------------------------------------------------------------------------
(* GET /api/library, get_library.  The listing is followed in the variable
   call; the records it reads are those of cache_files, and the second handler
   thread serves difficulty edits meanwhile. *)

MaxTime == 2

\* what stat().st_mtime of line 297 may report
Times == 1..MaxTime

FlashcardsFile == "flashcards"

Orders(S) ==
    {s \in [1..Cardinality(S) -> S] :
        \A i, k \in 1..Cardinality(S) : i # k => s[i] # s[k]}

\* line 303, with the default of line 304
difficulty_order(difficulty) ==
    CASE difficulty = "easy" -> 0
      [] difficulty = "medium" -> 1
      [] difficulty = "hard" -> 2
      [] OTHER -> 1

\* the key of line 304
sort_key(x) == <<difficulty_order(x.difficulty), 0 - x.modified>>

key_less(a, b) == a[1] < b[1] \/ (a[1] = b[1] /\ a[2] < b[2])

\* list.sort(key=...): a stable sort
RECURSIVE sorted(_)
sorted(library) ==
    IF library = <<>> THEN <<>>
    ELSE LET x == library[Len(library)]
             s == sorted(SubSeq(library, 1, Len(library) - 1))
             p == Cardinality({i \in 1..Len(s) : ~key_less(sort_key(x), sort_key(s[i]))})
         IN SubSeq(s, 1, p) \o <<x>> \o SubSeq(s, p + 1, Len(s))

\* a record with the difficulty an earlier edit has given it
EditedRecord(url, difficulty) == [StoredRecord(url) EXCEPT !.difficulty = difficulty]

InitLibrary ==
    /\ processing_status = [progress |-> 0, message |-> "Ready to start",
                            is_processing |-> FALSE, segments |-> <<>>,
                            audio_path |-> None, error |-> None, episode_id |-> None]
    /\ \E stored \in SUBSET URLs, difficulty \in [URLs -> Difficulties] :
          /\ cache_files = [e \in EpisodeIds |->
                IF \E u \in stored : e = get_episode_id(u)
                THEN LET u == CHOOSE u \in stored : e = get_episode_id(u)
                     IN EditedRecord(u, difficulty[u])
                ELSE Missing]
          /\ disk = {mp3_path(u) : u \in stored}
    /\ jobs = [j \in JobIds |-> FreeJob]
    /\ reqs = [h \in Handlers |-> IdleReq]
    /\ served = 0
    /\ last = Response(None, None)
    /\ env = Clients(MaxRequests, URLs)
    /\ ok = {}
    /\ \E flashcards \in BOOLEAN :
          call = [op |-> "get_library", pc |-> "idle", flashcards |-> flashcards,
                  listing |-> <<>>, library |-> <<>>, value |-> <<>>]

\* lines 263-265: CACHE_DIR.glob('*.json') lists the files in any order
get_library_L265(h) ==
    /\ reqs[h].pc = "idle"
    /\ call.pc \in {"idle", "returned"}
    /\ served < env.quota
    /\ served' = served + 1
    /\ reqs' = [reqs EXCEPT ![h].pc = "B267"]
    /\ \E listing \in Orders({e \in EpisodeIds : cache_files[e] # Missing}
                                     \cup (IF call.flashcards THEN {FlashcardsFile} ELSE {})) :
          call' = [call EXCEPT !.pc = "L267", !.listing = listing,
                               !.library = <<>>, !.value = <<>>]
    /\ UNCHANGED <<processing_status, cache_files, disk, jobs, last, env, ok>>

\* lines 266-300, one file: a file that cannot be read as a record is skipped
get_library_L267(h) ==
    /\ reqs[h].pc = "B267"
    /\ call.pc = "L267"
    /\ call.listing # <<>>
    /\ LET cache_file == Head(call.listing)
       IN IF cache_file = FlashcardsFile \/ ~IsRecord(cache_files[cache_file])
          THEN call' = [call EXCEPT !.listing = Tail(call.listing)]
          ELSE \E modified \in Times :
                  call' = [call EXCEPT
                     !.listing = Tail(call.listing),
                     !.library = Append(call.library,
                        [id |-> cache_file,
                         url |-> cache_files[cache_file].url,
                         difficulty |-> cache_files[cache_file].difficulty,
                         modified |-> modified])]
    /\ UNCHANGED <<processing_status, cache_files, disk, jobs, reqs, served, last, env, ok>>

\* lines 302-306
get_library_L304(h) ==
    /\ reqs[h].pc = "B267"
    /\ call.pc = "L267"
    /\ call.listing = <<>>
    /\ call' = [call EXCEPT !.pc = "returned", !.value = sorted(call.library)]
    /\ Return(h, "get_library", "200")
    /\ UNCHANGED <<processing_status, cache_files, disk, jobs, served, env, ok>>

get_library(h) == get_library_L265(h) \/ get_library_L267(h) \/ get_library_L304(h)

NextLibrary == \E h \in Handlers : get_library(h) \/ update_difficulty(h)

SpecLibrary == InitLibrary /\ [][NextLibrary]_vars

\* C22: the library lists one summary for each stored episode record, the
\* summaries in the order easy, medium, hard and, within one difficulty, the
\* most recently modified first
C22_LibraryListedInOrder ==
    Returned("get_library") =>
       /\ Len(call.value) = Cardinality({e \in EpisodeIds : cache_files[e] # Missing})
       /\ \A e \in EpisodeIds :
             cache_files[e] # Missing => \E i \in 1..Len(call.value) : call.value[i].id = e
       /\ \A i, k \in 1..Len(call.value) :
             i < k =>
                /\ difficulty_order(call.value[i].difficulty)
                      <= difficulty_order(call.value[k].difficulty)
                /\ call.value[i].difficulty = call.value[k].difficulty
                      => call.value[i].modified >= call.value[k].modified

-----------------------------------------------------------------------------
(* The flashcard routes of web_app.py, lines 517-602, served by the handler
   threads of the worker.  The state of the flashcard files and of the two
   threads is followed in the variable call. *)

MaxFlashcardRequests == 3

\* the user_id of the query string; a request without one carries None
UserIds == {chars("ab"), chars("a-b"), chars("undefined")}

\* get_user_flashcards_file, lines 517-523
get_user_flashcards_file(user_id) ==
    IF user_id = <<>> \/ user_id = chars("undefined")
    THEN chars("cache/flashcards.json")
    ELSE chars("cache/flashcards_") \o SelectSeq(user_id, LAMBDA c : c \in WordChars)
            \o chars(".json")

FlashcardFiles == {get_user_flashcards_file(user_id) : user_id \in UserIds}

IsFlashcardList(f) == f.kind = "list"

\* the content of a flashcard file that holds a whole JSON list
FlashcardList(flashcards) == [kind |-> "list", flashcards |-> flashcards]

\* the phrases the clients send
Phrases == {chars("Hi"), chars(" hi "), chars("  "), chars("by")}

IdleFlashcardReq ==
    [pc |-> "idle", user_id |-> None, file |-> None, flashcard |-> None,
     flashcards |-> <<>>]

InitFlashcards ==
    /\ AtRest
    /\ call = [op |-> "flashcards",
               files |-> [f \in FlashcardFiles |-> Missing],
               reqs |-> [h \in Handlers |-> IdleFlashcardReq],
               served |-> 0,
               last |-> Response(None, None)]

\* the worker hands the next flashcard request to an idle thread
AcceptFlashcard(h) ==
    /\ call.op = "flashcards"
    /\ call.reqs[h].pc = "idle"
    /\ call.served < MaxFlashcardRequests

\* POST /api/flashcards, lines 553-575; translator is no name of the module, so
\* line 564 raises and line 566 leaves the translation empty; the id of line
\* 569 is a fresh one
add_flashcard_L553(h) ==
    /\ AcceptFlashcard(h)
    /\ \E user_id \in UserIds, text \in Phrases :
          \E phrase \in {strip(text)} :
             IF phrase = <<>>
             THEN call' = [call EXCEPT !.served = @ + 1,
                              !.last = Response("add_flashcard", "400 no phrase")]
             ELSE call' = [call EXCEPT !.served = @ + 1,
                              !.reqs[h] = [pc |-> "F577", user_id |-> user_id,
                                           file |-> get_user_flashcards_file(user_id),
                                           flashcard |-> [id |-> call.served + 1,
                                                          phrase |-> phrase,
                                                          translation |-> ""],
                                           flashcards |-> <<>>]]
    /\ UNCHANGED pipeline

\* load_flashcards, lines 526-532: the empty list when there is no file
load_flashcards(file) ==
    IF call.files[file] = Missing THEN <<>> ELSE call.files[file].flashcards

\* a test that compares the phrases as they are written
already_exists_exactly(flashcards, phrase) ==
    \E k \in 1..Len(flashcards) : flashcards[k].phrase = phrase

\* the test of line 580
already_exists(flashcards, phrase) ==
    \E k \in 1..Len(flashcards) : lower(flashcards[k].phrase) = lower(phrase)

\* lines 577-583; json.load raises on a file that is being written
add_flashcard_L577(h) ==
    /\ call.op = "flashcards"
    /\ call.reqs[h].pc = "F577"
    /\ IF call.files[call.reqs[h].file] = Truncated
       THEN call' = [call EXCEPT !.reqs[h] = IdleFlashcardReq,
                        !.last = Response("add_flashcard", "500")]
       ELSE \E flashcards \in {load_flashcards(call.reqs[h].file)} :
               IF already_exists(flashcards, call.reqs[h].flashcard.phrase)
               THEN call' = [call EXCEPT !.reqs[h] = IdleFlashcardReq,
                                !.last = Response("add_flashcard", "400 exists")]
               ELSE call' = [call EXCEPT
                                !.reqs[h].pc = "F584",
                                !.reqs[h].flashcards =
                                    Append(flashcards, call.reqs[h].flashcard)]
    /\ UNCHANGED pipeline

\* save_flashcards, line 538: open(flashcards_file, 'w') truncates the file
save_flashcards_open(h, pc) ==
    call' = [call EXCEPT !.files[call.reqs[h].file] = Truncated, !.reqs[h].pc = pc]

\* save_flashcards, line 539, and the answer of the route
save_flashcards_dump(h, op) ==
    call' = [call EXCEPT !.files[call.reqs[h].file] = FlashcardList(call.reqs[h].flashcards),
                         !.reqs[h] = IdleFlashcardReq,
                         !.last = Response(op, "200")]

\* line 584, first half
add_flashcard_L584(h) ==
    /\ call.op = "flashcards"
    /\ call.reqs[h].pc = "F584"
    /\ save_flashcards_open(h, "F586")
    /\ UNCHANGED pipeline

\* lines 584-586
add_flashcard_L586(h) ==
    /\ call.op = "flashcards"
    /\ call.reqs[h].pc = "F586"
    /\ save_flashcards_dump(h, "add_flashcard")
    /\ UNCHANGED pipeline

add_flashcard(h) ==
    \/ add_flashcard_L553(h) \/ add_flashcard_L577(h)
    \/ add_flashcard_L584(h) \/ add_flashcard_L586(h)

\* DELETE /api/flashcards/<flashcard_id>, lines 598-600
delete_flashcard_L599(h) ==
    /\ AcceptFlashcard(h)
    /\ \E user_id \in UserIds, flashcard_id \in 1..MaxFlashcardRequests :
          \E file \in {get_user_flashcards_file(user_id)} :
             IF call.files[file] = Truncated
             THEN call' = [call EXCEPT !.served = @ + 1,
                              !.last = Response("delete_flashcard", "500")]
             ELSE call' = [call EXCEPT !.served = @ + 1,
                              !.reqs[h] = [pc |-> "F601", user_id |-> user_id,
                                           file |-> file,
                                           flashcard |-> None,
                                           flashcards |->
                                              SelectSeq(load_flashcards(file),
                                                 LAMBDA fc : fc.id # flashcard_id)]]
    /\ UNCHANGED pipeline

\* line 601, first half
delete_flashcard_L601(h) ==
    /\ call.op = "flashcards"
    /\ call.reqs[h].pc = "F601"
    /\ save_flashcards_open(h, "F602")
    /\ UNCHANGED pipeline

\* lines 601-602
delete_flashcard_L602(h) ==
    /\ call.op = "flashcards"
    /\ call.reqs[h].pc = "F602"
    /\ save_flashcards_dump(h, "delete_flashcard")
    /\ UNCHANGED pipeline

delete_flashcard(h) ==
    delete_flashcard_L599(h) \/ delete_flashcard_L601(h) \/ delete_flashcard_L602(h)

NextFlashcards == \E h \in Handlers : add_flashcard(h) \/ delete_flashcard(h)

SpecFlashcards == InitFlashcards /\ [][NextFlashcards]_vars

\* the phrases of a flashcard file that holds a list differ ignoring case
NoDuplicates(f) ==
    IsFlashcardList(f) =>
       \A i, k \in 1..Len(f.flashcards) :
          i # k => lower(f.flashcards[i].phrase) # lower(f.flashcards[k].phrase)

\* C23: after any sequence and interleaving of flashcard inserts and deletes no
\* flashcard store holds two cards whose phrases are equal ignoring case, and
\* an insert of a phrase that the store holds (ignoring case) is rejected and
\* leaves the store unchanged
C23_NoDuplicatePhrases ==
    /\ [](call.op = "flashcards" =>
             \A file \in FlashcardFiles : NoDuplicates(call.files[file]))
    /\ [][\A h \in Handlers :
             (/\ call.reqs[h].pc = "F577"
              /\ call'.reqs[h] # call.reqs[h]
              /\ IsFlashcardList(call.files[call.reqs[h].file])
              /\ already_exists(call.files[call.reqs[h].file].flashcards,
                                call.reqs[h].flashcard.phrase))
                => /\ call'.last = Response("add_flashcard", "400 exists")
                   /\ call'.reqs[h].pc = "idle"
                   /\ call'.files = call.files]_vars

\* an insert was rejected because the store holds the phrase in another case
C23_Witness ==
    /\ call.op = "flashcards"
    /\ call.last = Response("add_flashcard", "400 exists")
    /\ \E file \in FlashcardFiles :
          /\ IsFlashcardList(call.files[file])
          /\ \E k \in 1..Len(call.files[file].flashcards) :
                call.files[file].flashcards[k].phrase = chars("Hi")
    /\ \A file \in FlashcardFiles :
          IsFlashcardList(call.files[file]) =>
             \A k \in 1..Len(call.files[file].flashcards) :
                call.files[file].flashcards[k].phrase # chars("hi")

-----------------------------------------------------------------------------
(* The claims about the job status and the routes that read it. *)

\* the step in which a handler answers a status or a segments request
PollAnswered == served' = served + 1 /\ last'.op \in {"status", "segments"}

\* C24: the status query is a pure read: a poll of the status or a fetch of
\* the segments, at any point of a job, changes no field of the Job Status and
\* no record of the cache, and leaves every job where it was in its sequence
\* of phases
C24_StatusIsPureRead ==
    [][PollAnswered => UNCHANGED <<processing_status, cache_files, disk, jobs>>]_vars

\* a poll was answered while a job is in the middle of its phases
C24_Witness ==
    /\ last \in {Response("status", "200"), Response("segments", "200")}
    /\ processing_status.is_processing
    /\ \E j \in JobIds : jobs[j].pc = "L206"

-----------------------------------------------------------------------------
(* The claim about splitting twice. *)

\* the sentences of a text, as line 210 cuts them
sentences(text) == stripped_parts(re_split(text))

\* C25: the segmenter is idempotent on a text whose every sentence has between
\* MIN_WORDS_PER_SEGMENT and MAX_WORDS_PER_SEGMENT words: the pieces, joined
\* with single spaces and split again, come back as the same pieces
C25_SplitTwiceIsSplitOnce ==
    (/\ call.op = "_split_text" /\ call.pc = "split again"
     /\ sentences(call.text) # <<>>
     /\ \A i \in 1..Len(sentences(call.text)) :
           /\ Len(split(sentences(call.text)[i])) >= MIN_WORDS_PER_SEGMENT
           /\ Len(split(sentences(call.text)[i])) <= MAX_WORDS_PER_SEGMENT)
       => call.again = call.value

\* three sentences of nine words, split twice: three pieces
C25_Witness ==
    /\ call.op = "_split_text" /\ call.pc = "split again"
    /\ Len(sentences(call.text)) = 3
    /\ \A i \in 1..3 : Len(split(sentences(call.text)[i])) = 9
    /\ Len(call.again) = 3

StartsWith(s, prefix) == Len(s) >= Len(prefix) /\ SubSeq(s, 1, Len(prefix)) = prefix

\* a Job Status that shows what a job that has ended wrote into it
LeftBehind(ps) ==
    \/ ps.error # None
    \/ ps.segments # <<>>
    \/ StartsWith(ps.message, "Ready! ")
    \/ StartsWith(ps.message, "Error: ")
    \/ ps.message = "Loaded from cache!"

\* C26: the Job Status is reset at job start: in the first state in which a
\* poller can see is_processing true for a new job (no other job running, an
\* earlier job has run), progress, message, error and segments are those of
\* the new job, none is a value the earlier job left behind, such as progress
\* 100 with the earlier 'Ready' message
C26_StatusResetAtStart ==
    [][\A j \in JobIds :
          (/\ jobs[j].pc = "L152" /\ jobs'[j].pc = "L153"
           /\ \A k \in JobIds \ {j} : jobs[k].pc = "free"
           /\ processing_status.message # "Ready to start")
             => /\ processing_status'.is_processing
                /\ ~LeftBehind(processing_status')]_vars

C28_DownloadIdempotent ==
    [][\A j \in JobIds :
          /\ (jobs[j].pc = "D_check" /\ jobs'[j] # jobs[j]
                 /\ mp3_path(jobs[j].url) \in disk)
                => /\ jobs'[j].pc \in {"L173", "L198"}
                   /\ processing_status'.audio_path = mp3_path(jobs[j].url)
                   /\ disk' = disk
                   /\ cache_files' = cache_files
          /\ (jobs[j].pc = "D_run" /\ jobs'[j].pc \in {"L173", "L198"})
                => /\ processing_status'.audio_path = mp3_path(jobs[j].url)
                   /\ mp3_path(jobs[j].url) \in disk']_vars

\* a job has called download for an episode whose audio file was there
C28_Witness ==
    \E j \in JobIds :
       /\ jobs[j].pc \in {"L173", "L198"}
       /\ processing_status.message = "Arquivo ja existe, usando cache"
       /\ processing_status.audio_path = mp3_path(jobs[j].url)
       /\ mp3_path(jobs[j].url) \in disk

EditRefused ==
    /\ served' = served + 1
    /\ reqs' = reqs
    /\ last' \in {Response("update_difficulty", "400"), Response("update_difficulty", "404")}

\* C30: a difficulty edit accepts only easy, medium and hard and changes only
\* the difficulty of the record (segments, audio_path, url, title, language
\* and duration stay as they are stored); an edit with another value and an
\* edit of an unknown episode change nothing and create no record; so the
\* difficulty of every stored record is easy, medium or hard
C30_EditChangesOnlyDifficulty ==
    /\ [](\A e \in EpisodeIds :
             IsRecord(cache_files[e]) => cache_files[e].difficulty \in Difficulties)
    /\ [][/\ EditRefused => cache_files' = cache_files
          /\ \A h \in Handlers :
                (reqs[h].pc = "U500" /\ reqs'[h].pc = "U501")
                   => /\ reqs[h].cached.difficulty \in Difficulties
                      /\ IsRecord(cache_files[get_episode_id(reqs[h].url)])
                            => reqs[h].cached =
                                  [cache_files[get_episode_id(reqs[h].url)] EXCEPT
                                      !.difficulty = reqs[h].cached.difficulty]]_vars

-----------------------------------------------------------------------------
\* The sizes of the pieces the segmenter returns.

word_count(piece) == Len(split(piece))

\* C31: every piece returned by the segmenter has at most MAX_WORDS plus the
\* overflow tolerance words (15 + 5 = 20): the forced merge of an undersized
\* buffer and the backward merge of an undersized final buffer both stay
\* within the same tolerance.
C31_PiecesWithinTolerance ==
    Returned("_split_text") =>
        \A i \in 1..Len(call.value) :
            word_count(call.value[i]) <= MAX_WORDS_PER_SEGMENT + 5

\* the conjunctions the length enforcement is said to split before
Conjunctions ==
    {chars("and"), chars("but"), chars("or"), chars("so"), chars("because"),
     chars("when")}

\* a sentence without a comma that a cut before one conjunction brings within
\* MAX_WORDS_PER_SEGMENT
CutAtConjunctionConforms(text) ==
    /\ \A i \in 1..Len(text) : text[i] # ","
    /\ \E words \in {split(text)} : \E k \in 2..Len(words) :
          /\ words[k] \in Conjunctions
          /\ k - 1 <= MAX_WORDS_PER_SEGMENT
          /\ Len(words) - k + 1 <= MAX_WORDS_PER_SEGMENT

\* C32: length enforcement has three levels: a sentence of more than MAX_WORDS
\* words is cut at commas first; where that does not make every piece conform
\* it is cut before a conjunction, which stays with the clause that follows;
\* only a piece still too long is cut every MAX_WORDS words.  So a sentence
\* without commas that a cut before a conjunction brings within MAX_WORDS comes
\* back in pieces of which every one after the first begins with a conjunction.
C32_ConjunctionBeforeChunking ==
    (Returned("_smart_split") /\ CutAtConjunctionConforms(call.text)) =>
        \A i \in 2..Len(call.value) : Head(split(call.value[i])) \in Conjunctions

-----------------------------------------------------------------------------
\* The durations the interpolation of transcribe gives to the pieces.

\* the duration piece k of parts receives out of duration
share(parts, k, duration) ==
    LET total_chars == SumSeq([j \in 1..Len(parts) |-> Len(parts[j])])
    IN IF total_chars > 0
       THEN float_mul(float_div(float(Len(parts[k]), 0), total_chars), duration)
       ELSE float_div(duration, Len(parts))

\* the first n shares added up from left to right
RECURSIVE sum_of_shares(_, _, _)
sum_of_shares(parts, n, duration) ==
    IF n = 0 THEN float(0, 0)
    ELSE float_add(sum_of_shares(parts, n - 1, duration), share(parts, n, duration))

\* C33: the interpolation is proportional to the characters: when an
\* utterance yields several pieces, piece i receives the duration
\* (end - start) * len(piece i) / sum of the lengths (an equal part when the
\* sum is zero), so the durations of the pieces add up to end - start.
C33_DurationsSumToSpan ==
    call.op = "transcribe" =>
       \A u \in 1..(call.i - 1) :
          LET parts == split_text(strip(call.result[u].text))
              duration == float_sub(call.result[u].end, call.result[u].start)
          IN (~is_non_speech(strip(call.result[u].text)) /\ Len(parts) > 1) =>
                /\ \A k \in SegmentsOf(u) :
                      \E n \in 1..Len(parts) :
                         /\ call.segments[k].text = parts[n]
                         /\ call.segments[k].end =
                               float_add(call.segments[k].start, share(parts, n, duration))
                /\ sum_of_shares(parts, Len(parts), duration) = duration

-----------------------------------------------------------------------------
\* The progress a job reports.

\* job j is the only job that has been started and not yet ended
OnlyJob(j) == \A k \in JobIds \ {j} : jobs[k].pc = "free"

\* C34: during a single job the progress of Job Status never decreases from
\* the job's first report until the job ends in success (it drops only to 0,
\* on failure), and progress 100 is reported only once all the phases of the
\* job have finished.
C34_ProgressNeverDrops ==
    [][\A j \in JobIds :
          (process_podcast_async(j) /\ OnlyJob(j)) =>
             /\ jobs[j].pc \notin {"L164", "L184", "L248"} =>
                   processing_status'.progress >= processing_status.progress
             /\ (processing_status'.progress = 100 /\ processing_status.progress # 100) =>
                   jobs'[j].pc = "L251"]_vars

-----------------------------------------------------------------------------
\* The Job Status between jobs.

\* no job is active and no request is being handled
NothingRunning == Quiet /\ \A h \in Handlers : reqs[h].pc = "idle"

\* C35: the Job Status is coherent whenever no job is active: if it carries
\* the episode_id e with segments that are not empty, and the record e exists
\* in the cache store, then its segments and its audio_path are those of the
\* record e, after any sequence of start, fetch-cached, set-difficulty and
\* poll requests.
C35_StatusCoherentAtRest ==
    NothingRunning =>
        \A e \in EpisodeIds :
            (/\ processing_status.episode_id = e
             /\ processing_status.segments # <<>>
             /\ IsRecord(cache_files[e])) =>
                /\ processing_status.segments = cache_files[e].segments
                /\ processing_status.audio_path = cache_files[e].audio_path

\* C36: whenever the segmenter returns two or more pieces, every returned
\* piece has at least MIN_WORDS words; a piece with fewer words is only ever
\* returned as the sole piece of the result.
C36_NoSmallPieceAmongSeveral ==
    (Returned("_split_text") /\ Len(call.value) >= 2) =>
        \A i \in 1..Len(call.value) :
            word_count(call.value[i]) >= MIN_WORDS_PER_SEGMENT

\* several pieces are returned for a text whose last sentence is too small to
\* stand alone
C36_Witness ==
    /\ Returned("_split_text")
    /\ Len(call.value) >= 2
    /\ \E parts \in {sentences(call.text)} :
          /\ parts # <<>>
          /\ word_count(parts[Len(parts)]) < MIN_WORDS_PER_SEGMENT

-----------------------------------------------------------------------------
\* Deletion and the jobs that run meanwhile.

\* job j found the record of its episode when it started (line 162); where the
\* record is missing now, a delete has reported success while j was running
FoundRecord(j) == jobs[j].pc # "free" /\ jobs[j].mode = "cached"

\* C37: a deleted episode stays deleted: once delete has reported success the
\* record is absent until a later start for the episode's URL is accepted; no
\* job that was already running at the time of the delete creates the record
\* again.
C37_DeletedStaysDeleted ==
    [][\A j \in JobIds :
          (process_podcast_async(j) /\ FoundRecord(j)
              /\ cache_files[Eid(j)] = Missing) =>
             cache_files'[Eid(j)] = Missing]_vars

-----------------------------------------------------------------------------
\* services/translator.py: the terms that are kept out of the translation
\* (_preserve_terms and _restore_terms, lines 38-54), followed on their own.

\* lines 11-24
PRESERVE_TERMS ==
    << chars("Wi-Fi"), chars("WiFi"), chars("wi-fi"), chars("wifi"),
       chars("iPhone"), chars("iPad"), chars("MacBook"), chars("iMac"),
       chars("iOS"), chars("macOS"),
       chars("Android"), chars("Windows"), chars("Linux"),
       chars("Bluetooth"), chars("USB"), chars("HDMI"), chars("GPS"),
       chars("Google"), chars("Apple"), chars("Microsoft"), chars("Amazon"),
       chars("Netflix"), chars("Spotify"),
       chars("Facebook"), chars("Instagram"), chars("Twitter"), chars("TikTok"),
       chars("YouTube"), chars("WhatsApp"),
       chars("AI"), chars("API"), chars("URL"), chars("HTML"), chars("CSS"),
       chars("JavaScript"), chars("Python"),
       chars("email"), chars("e-mail"), chars("online"), chars("offline"),
       chars("download"), chars("upload"),
       chars("podcast"), chars("Podcast"),
       chars("UK"), chars("US"), chars("USA"), chars("EU"), chars("UN"),
       chars("NATO"), chars("FBI"), chars("CIA"), chars("NASA"),
       chars("CEO"), chars("CFO"), chars("CTO"), chars("PR"), chars("HR"),
       chars("IT"), chars("VIP"),
       chars("OK"), chars("ok"), chars("DJ"), chars("TV"), chars("CD"),
       chars("DVD"), chars("MP3") >>

\* str.replace(old, new)
RECURSIVE str_replace(_, _, _)
str_replace(t, old, new) ==
    IF index_of(t, old) = 0 THEN t
    ELSE SubSeq(t, 1, index_of(t, old) - 1) \o new
            \o str_replace(SubSeq(t, index_of(t, old) + Len(old), Len(t)), old, new)

\* line 43: f"__PRESERVE_{i}__"
placeholder(i) == chars("__PRESERVE_") \o chars(ToString(i)) \o chars("__")

\* lines 42-46, from term i on; preserved is the dict in the order of its keys
RECURSIVE preserve_from(_, _, _)
preserve_from(i, result, preserved) ==
    IF i = Len(PRESERVE_TERMS) THEN [result |-> result, preserved |-> preserved]
    ELSE IF index_of(result, PRESERVE_TERMS[i + 1]) # 0
    THEN preserve_from(i + 1,
                       str_replace(result, PRESERVE_TERMS[i + 1], placeholder(i)),
                       Append(preserved, [placeholder |-> placeholder(i),
                                          term |-> PRESERVE_TERMS[i + 1]]))
    ELSE preserve_from(i + 1, result, preserved)

\* lines 38-47
preserve_terms(text) == preserve_from(0, text, <<>>)

\* lines 49-54
RECURSIVE restore_terms(_, _)
restore_terms(text, preserved) ==
    IF preserved = <<>> THEN text
    ELSE restore_terms(str_replace(text, Head(preserved).placeholder, Head(preserved).term),
                       Tail(preserved))

\* The texts handed to _preserve_terms: up to MaxTermWords of the words below,
\* with one space between them.
MaxTermWords == 3

TermWords ==
    {chars("the"), chars("Wi-Fi"), chars("PR"), chars("USA"), chars("TV"), chars("ok")}

TermTexts ==
    {join(<<Space>>, words) : words \in UNION {[1..k -> TermWords] : k \in 0..MaxTermWords}}

InitTranslator ==
    /\ AtRest
    /\ \E text \in TermTexts :
          call = [op |-> "_preserve_terms", pc |-> "called", text |-> text,
                  result |-> <<>>, preserved |-> <<>>, value |-> <<>>]

\* lines 38-47, the whole call
Translator_preserve ==
    /\ call.op = "_preserve_terms" /\ call.pc = "called"
    /\ \E r \in {preserve_terms(call.text)} :
          call' = [call EXCEPT !.pc = "returned", !.result = r.result,
                               !.preserved = r.preserved]
    /\ UNCHANGED pipeline

\* lines 49-54, called with what _preserve_terms returned
Translator_restore ==
    /\ call.op = "_preserve_terms" /\ call.pc = "returned"
    /\ call' = [call EXCEPT !.op = "_restore_terms",
                            !.value = restore_terms(call.result, call.preserved)]
    /\ UNCHANGED pipeline

NextTranslator == Translator_preserve \/ Translator_restore

SpecTranslator == InitTranslator /\ [][NextTranslator]_vars

\* C38: the preservation of terms round-trips: for every text, _restore_terms
\* applied to the unmodified output of _preserve_terms returns the original
\* text exactly, with no placeholder left, whichever and however many of the
\* preserved terms the text contains.
C38_TermsRoundTrip ==
    Returned("_restore_terms") =>
        /\ call.value = call.text
        /\ index_of(call.value, chars("__PRESERVE_")) = 0

-----------------------------------------------------------------------------
\* services/audio_player.py: the AudioPlayer, its caller and the playback
\* threads that play_segment starts, followed on their own.  The caller makes
\* up to MaxPlayerCalls calls of play_segment and stop, one after the other;
\* a playback thread's pc names the source line it executes next.

MaxPlayerCalls == 3
MaxPlays == 2
MaxRepeats == 2

PlayerThreads == 1..MaxPlays

\* a thread as threading.Thread sees it; stopped and completed are history:
\* whether stop() ran while the thread was alive, and whether the thread has
\* invoked the segment-complete callback
NoThread == [pc |-> "unborn", repeat |-> 0, repeats |-> 0,
             stopped |-> FALSE, completed |-> FALSE]

\* lines 11-21, after load(): nothing plays
InitPlayer ==
    /\ AtRest
    /\ call = [op |-> "player", caller |-> [pc |-> "idle", op |-> None, repeats |-> 0],
               calls |-> 0, is_playing |-> FALSE, stop_requested |-> FALSE,
               current_repeat |-> 0, total_repeats |-> 1, playback_thread |-> 0,
               threads |-> [t \in PlayerThreads |-> NoThread], busy |-> FALSE]

\* Thread.is_alive()
is_alive(t) == call.threads[t].pc \notin {"unborn", "dead"}

\* the steps of _play that call into a library or a callback and so may take
\* more than the second join waits: the export of lines 60-66, and the
\* callback and the load of lines 75-81
Blocking == {"L60", "L75"}

\* the caller calls play_segment(start_ms, end_ms, repeats) or stop(); both
\* begin with stop(), line 55 or line 98
Player_call ==
    /\ call.op = "player" /\ call.caller.pc = "idle"
    /\ call.calls < MaxPlayerCalls
    /\ \E op \in {"play_segment", "stop"}, repeats \in 1..MaxRepeats :
          /\ op = "play_segment" => \E t \in PlayerThreads : call.threads[t].pc = "unborn"
          /\ op = "stop" => repeats = 1
          /\ call' = [call EXCEPT !.caller = [pc |-> "L100", op |-> op, repeats |-> repeats],
                                  !.calls = @ + 1]
    /\ UNCHANGED pipeline

\* line 100
stop_L100 ==
    /\ call.op = "player" /\ call.caller.pc = "L100"
    /\ call' = [call EXCEPT !.stop_requested = TRUE, !.caller.pc = "L101",
                            !.threads = [t \in PlayerThreads |->
                                IF is_alive(t) THEN [@[t] EXCEPT !.stopped = TRUE]
                                ELSE @[t]]]
    /\ UNCHANGED pipeline

\* line 101: pygame.mixer.music.stop()
stop_L101 ==
    /\ call.op = "player" /\ call.caller.pc = "L101"
    /\ call' = [call EXCEPT !.busy = FALSE, !.caller.pc = "L102"]
    /\ UNCHANGED pipeline

\* line 102
stop_L102 ==
    /\ call.op = "player" /\ call.caller.pc = "L102"
    /\ call' = [call EXCEPT !.is_playing = FALSE, !.caller.pc = "L104"]
    /\ UNCHANGED pipeline

\* lines 104-105: join(timeout=1.0) returns when the thread has ended or when
\* the second is over; stop() returns, to line 56 inside play_segment
stop_L104 ==
    /\ call.op = "player" /\ call.caller.pc = "L104"
    /\ IF call.playback_thread = 0 THEN TRUE
       ELSE ~is_alive(call.playback_thread)
               \/ call.threads[call.playback_thread].pc \in Blocking
    /\ call' = [call EXCEPT !.caller =
          IF call.caller.op = "stop" THEN [pc |-> "idle", op |-> None, repeats |-> 0]
          ELSE [@ EXCEPT !.pc = "L56"]]
    /\ UNCHANGED pipeline

stop == stop_L100 \/ stop_L101 \/ stop_L102 \/ stop_L104

\* line 56
play_segment_L56 ==
    /\ call.op = "player" /\ call.caller.pc = "L56"
    /\ call' = [call EXCEPT !.stop_requested = FALSE, !.caller.pc = "L57"]
    /\ UNCHANGED pipeline

\* lines 57-58
play_segment_L57 ==
    /\ call.op = "player" /\ call.caller.pc = "L57"
    /\ call' = [call EXCEPT !.total_repeats = call.caller.repeats,
                            !.current_repeat = 0, !.caller.pc = "L95"]
    /\ UNCHANGED pipeline

\* lines 95-96: the playback thread is created and started
play_segment_L95 ==
    /\ call.op = "player" /\ call.caller.pc = "L95"
    /\ \E t \in PlayerThreads :
          /\ call.threads[t].pc = "unborn"
          /\ \A k \in PlayerThreads : k < t => call.threads[k].pc # "unborn"
          /\ call' = [call EXCEPT
                !.threads[t] = [NoThread EXCEPT !.pc = "L60",
                                                !.repeats = call.caller.repeats],
                !.playback_thread = t,
                !.caller = [pc |-> "idle", op |-> None, repeats |-> 0]]
    /\ UNCHANGED pipeline

play_segment == play_segment_L56 \/ play_segment_L57 \/ play_segment_L95

\* _play, lines 60-66: the segment is cut out and exported
play_L60(t) ==
    /\ call.op = "player" /\ call.threads[t].pc = "L60"
    /\ call' = [call EXCEPT !.threads[t].pc = "L69"]
    /\ UNCHANGED pipeline

\* lines 68-70: the head of the loop
play_L69(t) ==
    /\ call.op = "player" /\ call.threads[t].pc = "L69"
    /\ call' = [call EXCEPT !.threads[t].pc =
          IF call.threads[t].repeat >= call.threads[t].repeats \/ call.stop_requested
          THEN "L91" ELSE "L72"]
    /\ UNCHANGED pipeline

\* lines 72-73
play_L72(t) ==
    /\ call.op = "player" /\ call.threads[t].pc = "L72"
    /\ call' = [call EXCEPT !.current_repeat = call.threads[t].repeat + 1,
                            !.is_playing = TRUE, !.threads[t].pc = "L75"]
    /\ UNCHANGED pipeline

\* lines 75-81: the repeat callback, then the buffer is loaded and played
play_L75(t) ==
    /\ call.op = "player" /\ call.threads[t].pc = "L75"
    /\ call' = [call EXCEPT !.busy = TRUE, !.threads[t].pc = "L84"]
    /\ UNCHANGED pipeline

\* lines 84-85: the wait ends when the music has ended or a stop is requested
play_L84(t) ==
    /\ call.op = "player" /\ call.threads[t].pc = "L84"
    /\ ~(call.busy /\ ~call.stop_requested)
    /\ call' = [call EXCEPT !.threads[t].pc = "L88"]
    /\ UNCHANGED pipeline

\* lines 88-89 and the next round of the loop
play_L88(t) ==
    /\ call.op = "player" /\ call.threads[t].pc = "L88"
    /\ call' = [call EXCEPT !.threads[t].repeat = @ + 1, !.threads[t].pc = "L69"]
    /\ UNCHANGED pipeline

\* line 91
play_L91(t) ==
    /\ call.op = "player" /\ call.threads[t].pc = "L91"
    /\ call' = [call EXCEPT !.is_playing = FALSE, !.threads[t].pc = "L92"]
    /\ UNCHANGED pipeline

\* lines 92-93: the segment-complete callback, and the thread ends
play_L92(t) ==
    /\ call.op = "player" /\ call.threads[t].pc = "L92"
    /\ call' = [call EXCEPT !.threads[t].pc = "dead",
                            !.threads[t].completed = ~call.stop_requested]
    /\ UNCHANGED pipeline

play(t) ==
    \/ play_L60(t) \/ play_L69(t) \/ play_L72(t) \/ play_L75(t)
    \/ play_L84(t) \/ play_L88(t) \/ play_L91(t) \/ play_L92(t)

\* the mixer comes to the end of the buffer it plays
MusicEnds ==
    /\ call.op = "player" /\ call.busy
    /\ call' = [call EXCEPT !.busy = FALSE]
    /\ UNCHANGED pipeline

NextPlayer ==
    \/ Player_call \/ stop \/ play_segment
    \/ \E t \in PlayerThreads : play(t)
    \/ MusicEnds

SpecPlayer == InitPlayer /\ [][NextPlayer]_vars

\* thread t is inside the playback loop, loading or playing audio
Playing(t) == call.threads[t].pc \in {"L72", "L75", "L84", "L88"}

\* C39: the audio player runs at most one playback loop at a time: after any
\* sequence of play_segment and stop calls (play_segment while an earlier
\* playback thread has not yet ended included) at most one playback thread is
\* loading or playing audio, and a playback that was stopped never invokes the
\* segment-complete callback nor leaves is_playing true.
C39_OnePlaybackLoop ==
    call.op = "player" =>
        /\ Cardinality({t \in PlayerThreads : Playing(t)}) <= 1
        /\ \A t \in PlayerThreads : call.threads[t].stopped => ~call.threads[t].completed
        /\ (/\ call.caller.pc = "idle"
            /\ \A t \in PlayerThreads : ~is_alive(t)
            /\ \E t \in PlayerThreads : call.threads[t].stopped) => ~call.is_playing

-----------------------------------------------------------------------------
\* The flashcard stores of different users.

\* a path of the flashcard namespace of the cache directory: cache/flashcards,
\* then word characters only, then .json
InFlashcardNamespace(file) ==
    /\ StartsWith(file, chars("cache/flashcards"))
    /\ Len(file) >= Len(chars("cache/flashcards.json"))
    /\ SubSeq(file, Len(file) - 4, Len(file)) = chars(".json")
    /\ \A i \in (Len(chars("cache/flashcards")) + 1)..(Len(file) - 5) : file[i] \in WordChars

\* C40: the flashcard stores are isolated per user: for any two distinct user
\* identifiers, the inserts and deletes made for one never change the list
\* returned for the other, and no user identifier maps to a file outside the
\* flashcard namespace of the cache directory.
C40_StoresIsolated ==
    /\ [](call.op = "flashcards" =>
             \A h \in Handlers :
                call.reqs[h].pc # "idle" => InFlashcardNamespace(call.reqs[h].file))
    /\ [][\A h \in Handlers : \A other \in UserIds :
             (/\ call.op = "flashcards"
              /\ add_flashcard(h) \/ delete_flashcard(h)
              /\ call.reqs[h].pc # "idle"
              /\ call.reqs[h].user_id # other) =>
                call'.files[get_user_flashcards_file(other)]
                    = call.files[get_user_flashcards_file(other)]]_vars

=============================================================================
